---- MODULE Spec2Model ----
(***************************************************************************)
(* Model of the document structuring code of the SOP pipeline:             *)
(*   src/SOP_Structure_Formation.py  (_categorize_tables, _parse_sections, *)
(*                                    SOP_Structure_Formation)             *)
(*   src/Extract_Text_Lambda.py      (extract_text_and_tables,             *)
(*                                    is_block_inside_tables)              *)
(*                                                                         *)
(* Python strings are sequences of one-character strings.  Python lists    *)
(* are sequences.  An optional value (None or a value) is a sequence of    *)
(* length 0 or 1.  Offsets into a text are 0-based as in Python: offset p  *)
(* is the position before character p+1 of the sequence.                   *)
(***************************************************************************)
EXTENDS Integers, Sequences, FiniteSets, TLC

VARIABLES
    \* ---- _categorize_tables (one loop iteration per step) ----
    cat_pc,            \* "loop" | "done"
    tables,            \* the argument: sequence of tables
    cat_i,             \* 1-based index of the table the for loop visits next
    metadata_table,    \* <<>> (None) or <<table>>
    revision_rows,     \* list of rows
    body_tables,       \* list of tables
    is_revision_section,
    meta_src,          \* history: index of the table metadata_table was taken from
    rev_src,           \* history: rev_src[k] = index of the table revision_rows[k] came from
    body_src,          \* history: body_src[k] = index of the table body_tables[k] is
    \* ---- _parse_sections and the section loop of SOP_Structure_Formation ----
    sec_pc,            \* "parse" | "loop" | "done"
    raw_text,          \* sop_data["raw_text"]
    headings,          \* list of [heading, start, end]
    content_map,       \* dict: heading string -> content
    sec_i,             \* 1-based index of the heading the for loop visits next
    current_section,   \* <<>> (None) or <<section>>
    structured_body,   \* list of sections
    \* ---- extract_text_and_tables (one loop iteration per step) ----
    ext_pc,            \* "blocks" | "pages" | "done"
    blocks,            \* the argument: list of OCR blocks
    ext_i,             \* 1-based index of the block the first loop visits next
    raw_text_lines,    \* list of str
    ext_tables,        \* the local "tables": list of [page, source, rows]
    table_geometries,  \* list of bounding boxes
    page_line_blocks,  \* dict page -> LINE blocks, as a list of entries in insertion order
    fb_p,              \* index of the entry of page_line_blocks the second loop is at
    fb_l,              \* index of the line of that page visited next
    buffer,            \* list of str
    ext_raw_text,      \* the returned "\n".join(raw_text_lines)
    tbl_src,           \* history: tbl_src[k] = index of the TABLE block ext_tables[k]
                       \*          was assembled from, 0 for a fallback table
    \* ---- SOP_Structure_Formation, the assembly of the document model ----
    doc_pc,            \* "idle" | "run" | "done"
    final_output,      \* list of blocks of the document model
    \* ---- the structured variant of the table assembler (one table per step) ----
    st_pc,             \* "idle" | "loop" | "done"
    grids,             \* the table grids of one document, in document order
    st_i,              \* 1-based index of the grid structured next
    last_header,       \* <<>> or <<the header labels remembered>>
    structured_tables, \* list of [headers, rows]
    st_mode,           \* history: how the headers of each table were found
    \* ---- Claude_Analysis_Lambda.lambda_handler (one attribute per step) ----
    ca_pc,             \* "idle" | "start" | "loop" | "returned" | "raised"
    ca_event,          \* the event
    ca_i,              \* 1-based index of the control attribute analysed next
    ca_attempts,       \* history: invoke_model calls made per attribute
    formatted_results, \* list of results
    ca_return,         \* <<>> or <<the returned record>>
    \* ---- is_block_inside_tables, called on its own ----
    in_pc,             \* "idle" | "call" | "done"
    in_line,           \* the line block
    in_boxes,          \* the table bounding boxes
    in_result,         \* <<>> or <<the returned bool>>
    \* ---- Generate_Presigned_URL_Lambda.lambda_handler ----
    upload_bucket,     \* <<>> or <<the value of UPLOAD_BUCKET in the environment>>
    presign_raises,    \* <<>> or <<the class of what generate_presigned_url raises>>
    url_pc,            \* "idle" | "start" | "generate" | "done"
    url_event,         \* the parsed request
    url_folder,        \* <<>> or <<the folder chosen>>
    url_generated,     \* list of [Key, ContentType] a URL was generated for
    url_response,      \* <<>> or <<[statusCode, body]>>
    \* ---- Extract_Text_Lambda.lambda_handler ----
    h_pc,              \* "idle" | "event" | "start" | "poll" | "sleep" | "check" |
                       \* "fetch" | "extract" | "put" | "returned" | "raised"
    h_event,           \* the event
    h_doc,             \* the result pages the OCR service holds for the job
    h_key,             \* <<>> or <<[key, sop_filename, output_key]>>
    job,               \* the status the OCR service reports for the job
    observed,          \* history: the statuses is_job_complete has read
    h_complete,        \* <<>> or <<the bool is_job_complete returned>>
    next_token,        \* 0 (None) or the number of the result page to fetch next
    all_blocks,        \* list of blocks fetched
    put_object_calls,  \* the put_object calls this call of the handler has made,
                       \* [Bucket, Key, Body] each (line 204)
    h_return           \* <<>> or <<the returned record>>

catVars == <<cat_pc, tables, cat_i, metadata_table, revision_rows, body_tables,
             is_revision_section, meta_src, rev_src, body_src>>

secVars == <<sec_pc, raw_text, headings, content_map, sec_i, current_section,
             structured_body>>

extVars == <<ext_pc, blocks, ext_i, raw_text_lines, ext_tables, table_geometries,
             page_line_blocks, fb_p, fb_l, buffer, ext_raw_text, tbl_src>>

docVars == <<doc_pc, final_output>>

stVars == <<st_pc, grids, st_i, last_header, structured_tables, st_mode>>

caVars == <<ca_pc, ca_event, ca_i, ca_attempts, formatted_results, ca_return>>

inVars == <<in_pc, in_line, in_boxes, in_result>>

urlVars == <<upload_bucket, presign_raises, url_pc, url_event, url_folder, url_generated, url_response>>

hVars == <<h_pc, h_event, h_doc, h_key, job, observed, h_complete, next_token,
           all_blocks, put_object_calls, h_return>>

\* the variables of the operations modelled after the document model
lateVars == <<stVars, caVars, inVars, urlVars, hVars>>

\* the variables of the operations modelled after the first three
newVars == <<docVars, lateVars>>

vars == <<catVars, secVars, extVars, newVars>>

\* what a step of the table classifier, of the section builder, of the
\* extraction leaves alone
notCat == <<secVars, extVars, newVars>>
notSec == <<catVars, extVars, newVars>>
notExt == <<catVars, secVars, newVars>>
notSt == <<catVars, secVars, extVars, docVars, caVars, inVars, urlVars, hVars>>
notCa == <<catVars, secVars, extVars, docVars, stVars, inVars, urlVars, hVars>>
notIn == <<catVars, secVars, extVars, docVars, stVars, caVars, urlVars, hVars>>
notUrl == <<catVars, secVars, extVars, docVars, stVars, caVars, inVars, hVars>>
notH == <<catVars, secVars, extVars, docVars, stVars, caVars, inVars, urlVars>>

(***************************************************************************)
(* Characters and strings                                                  *)
(***************************************************************************)
Digits == {"0", "1", "2", "3", "4", "5", "6", "7", "8", "9"}

UpperLetters == <<"A", "B", "C", "D", "E", "F", "G", "H", "I", "J", "K", "L", "M",
                  "N", "O", "P", "Q", "R", "S", "T", "U", "V", "W", "X", "Y", "Z">>

LowerLetters == <<"a", "b", "c", "d", "e", "f", "g", "h", "i", "j", "k", "l", "m",
                  "n", "o", "p", "q", "r", "s", "t", "u", "v", "w", "x", "y", "z">>

Range(f) == {f[x] : x \in DOMAIN f}

(***************************************************************************)
(* The alphabet is chr(1)..chr(255), each character a string of length 1,  *)
(* and the characters of WideChars, which lie above chr(255) and are       *)
(* written by their code point ("U+017F" is one character).  The tables    *)
(* below are those of Python 3.11 on this alphabet.                        *)
(***************************************************************************)
WideChars == {
    "U+0100", "U+0101", "U+0130", "U+0131", "U+017F", "U+212A", "U+0663", "U+FF11",
    "U+4E2D", "U+1680", "U+2000", "U+2001", "U+2002", "U+2003", "U+2004", "U+2005",
    "U+2006", "U+2007", "U+2008", "U+2009", "U+200A", "U+2028", "U+2029", "U+202F",
    "U+205F", "U+3000" }

\* the characters outside ASCII that have a lowercase form, and that form
MoreUpper == <<
    "À", "Á", "Â", "Ã", "Ä", "Å", "Æ", "Ç", "È", "É", "Ê", "Ë",
    "Ì", "Í", "Î", "Ï", "Ð", "Ñ", "Ò", "Ó", "Ô", "Õ", "Ö", "Ø",
    "Ù", "Ú", "Û", "Ü", "Ý", "Þ", "U+0100", "U+0130", "U+212A" >>

MoreLower == <<
    "à", "á", "â", "ã", "ä", "å", "æ", "ç", "è", "é", "ê", "ë",
    "ì", "í", "î", "ï", "ð", "ñ", "ò", "ó", "ô", "õ", "ö", "ø",
    "ù", "ú", "û", "ü", "ý", "þ", "U+0101", "i", "k" >>

\* str.isspace(), which is also \s of a str pattern
Spaces == {
    "\t", "\n", "", "\f", "\r", "", "", "", "", " ", "", " ",
    "U+1680", "U+2000", "U+2001", "U+2002", "U+2003", "U+2004", "U+2005", "U+2006", "U+2007", "U+2008", "U+2009", "U+200A",
    "U+2028", "U+2029", "U+202F", "U+205F", "U+3000" }

\* the decimal digits outside ASCII
MoreDigits == {
    "U+0663", "U+FF11" }

\* the letters and digits outside ASCII
MoreWord == {
    "ª", "²", "³", "µ", "¹", "º", "¼", "½", "¾", "À", "Á", "Â",
    "Ã", "Ä", "Å", "Æ", "Ç", "È", "É", "Ê", "Ë", "Ì", "Í", "Î",
    "Ï", "Ð", "Ñ", "Ò", "Ó", "Ô", "Õ", "Ö", "Ø", "Ù", "Ú", "Û",
    "Ü", "Ý", "Þ", "ß", "à", "á", "â", "ã", "ä", "å", "æ", "ç",
    "è", "é", "ê", "ë", "ì", "í", "î", "ï", "ð", "ñ", "ò", "ó",
    "ô", "õ", "ö", "ø", "ù", "ú", "û", "ü", "ý", "þ", "ÿ", "U+0100",
    "U+0101", "U+0130", "U+0131", "U+017F", "U+212A", "U+0663", "U+FF11", "U+4E2D" }

\* the characters that repr() writes as \xNN or \uNNNN, and what it writes
Unprintable == <<
    "", "", "", "", "", "", "", "", "", "\f", "", "",
    "", "", "", "", "", "", "", "", "", "", "", "",
    "", "", "", "", "", "", "", "", "", "", "", "",
    "", "", "", "", "", "", "", "", "", "", "", "",
    "", "", "", "", "", "", "", "", "", "", "", "",
    "", " ", "­", "U+1680", "U+2000", "U+2001", "U+2002", "U+2003", "U+2004", "U+2005", "U+2006", "U+2007",
    "U+2008", "U+2009", "U+200A", "U+2028", "U+2029", "U+202F", "U+205F", "U+3000" >>

Escapes == <<
    <<"\\", "x", "0", "1">>, <<"\\", "x", "0", "2">>, <<"\\", "x", "0", "3">>, <<"\\", "x", "0", "4">>,
    <<"\\", "x", "0", "5">>, <<"\\", "x", "0", "6">>, <<"\\", "x", "0", "7">>, <<"\\", "x", "0", "8">>,
    <<"\\", "x", "0", "b">>, <<"\\", "x", "0", "c">>, <<"\\", "x", "0", "e">>, <<"\\", "x", "0", "f">>,
    <<"\\", "x", "1", "0">>, <<"\\", "x", "1", "1">>, <<"\\", "x", "1", "2">>, <<"\\", "x", "1", "3">>,
    <<"\\", "x", "1", "4">>, <<"\\", "x", "1", "5">>, <<"\\", "x", "1", "6">>, <<"\\", "x", "1", "7">>,
    <<"\\", "x", "1", "8">>, <<"\\", "x", "1", "9">>, <<"\\", "x", "1", "a">>, <<"\\", "x", "1", "b">>,
    <<"\\", "x", "1", "c">>, <<"\\", "x", "1", "d">>, <<"\\", "x", "1", "e">>, <<"\\", "x", "1", "f">>,
    <<"\\", "x", "7", "f">>, <<"\\", "x", "8", "0">>, <<"\\", "x", "8", "1">>, <<"\\", "x", "8", "2">>,
    <<"\\", "x", "8", "3">>, <<"\\", "x", "8", "4">>, <<"\\", "x", "8", "5">>, <<"\\", "x", "8", "6">>,
    <<"\\", "x", "8", "7">>, <<"\\", "x", "8", "8">>, <<"\\", "x", "8", "9">>, <<"\\", "x", "8", "a">>,
    <<"\\", "x", "8", "b">>, <<"\\", "x", "8", "c">>, <<"\\", "x", "8", "d">>, <<"\\", "x", "8", "e">>,
    <<"\\", "x", "8", "f">>, <<"\\", "x", "9", "0">>, <<"\\", "x", "9", "1">>, <<"\\", "x", "9", "2">>,
    <<"\\", "x", "9", "3">>, <<"\\", "x", "9", "4">>, <<"\\", "x", "9", "5">>, <<"\\", "x", "9", "6">>,
    <<"\\", "x", "9", "7">>, <<"\\", "x", "9", "8">>, <<"\\", "x", "9", "9">>, <<"\\", "x", "9", "a">>,
    <<"\\", "x", "9", "b">>, <<"\\", "x", "9", "c">>, <<"\\", "x", "9", "d">>, <<"\\", "x", "9", "e">>,
    <<"\\", "x", "9", "f">>, <<"\\", "x", "a", "0">>, <<"\\", "x", "a", "d">>, <<"\\", "u", "1", "6", "8", "0">>,
    <<"\\", "u", "2", "0", "0", "0">>, <<"\\", "u", "2", "0", "0", "1">>, <<"\\", "u", "2", "0", "0", "2">>, <<"\\", "u", "2", "0", "0", "3">>,
    <<"\\", "u", "2", "0", "0", "4">>, <<"\\", "u", "2", "0", "0", "5">>, <<"\\", "u", "2", "0", "0", "6">>, <<"\\", "u", "2", "0", "0", "7">>,
    <<"\\", "u", "2", "0", "0", "8">>, <<"\\", "u", "2", "0", "0", "9">>, <<"\\", "u", "2", "0", "0", "a">>, <<"\\", "u", "2", "0", "2", "8">>,
    <<"\\", "u", "2", "0", "2", "9">>, <<"\\", "u", "2", "0", "2", "f">>, <<"\\", "u", "2", "0", "5", "f">>, <<"\\", "u", "3", "0", "0", "0">> >>

AsciiUpper == Range(UpperLetters)
AsciiLower == Range(LowerLetters)
OtherUpper == Range(MoreUpper)
Escaped == Range(Unprintable)

\* the characters \w matches
WordChars == Digits \cup AsciiUpper \cup AsciiLower \cup {"_"} \cup MoreWord

\* the lowercase form of one character, as re.IGNORECASE computes it
Lower(c) ==
    IF c \in AsciiUpper
    THEN LowerLetters[CHOOSE k \in 1..Len(UpperLetters) : UpperLetters[k] = c]
    ELSE IF c \in OtherUpper
    THEN MoreLower[CHOOSE k \in 1..Len(MoreUpper) : MoreUpper[k] = c]
    ELSE c

\* re.IGNORECASE: two characters match when their lowercase forms are equal
\* or are joined by one of re's case fixes (dotless i with i, long s with s)
Fold(c) ==
    IF c = "U+0131" THEN "i"
    ELSE IF c = "U+017F" THEN "s"
    ELSE Lower(c)

\* \d, \s, \w and . of Python's re on a str
IsDigit(c) == c \in Digits \/ c \in MoreDigits
IsSpace(c) == c \in Spaces
IsWord(c) == c \in WordChars
IsDot(c) == c # "\n"

\* a str literal as the sequence of its characters
Chars(x) == [k \in 1..Len(x) |-> SubSeq(x, k, k)]

\* s[a:b] for 0 <= a, b  (Python slice, clipped to the string)
Slice(s, a, b) ==
    LET hi == IF b > Len(s) THEN Len(s) ELSE b
    IN  IF a >= hi THEN <<>> ELSE [k \in 1..(hi - a) |-> s[a + k]]

\* sub in s  (Python substring test)
Contains(s, sub) ==
    \E a \in 0..(Len(s) - Len(sub)) : Slice(s, a, a + Len(sub)) = sub

\* str.strip(): whitespace removed at both ends
Strip(s) ==
    LET keep == {k \in 1..Len(s) : ~IsSpace(s[k])}
    IN  IF keep = {} THEN <<>>
        ELSE LET lo == CHOOSE k \in keep : \A j \in keep : k <= j
                 hi == CHOOSE k \in keep : \A j \in keep : k >= j
             IN  Slice(s, lo - 1, hi)

RECURSIVE Concat(_)
\* "".join(ss) for a list of strings
Concat(ss) == IF ss = <<>> THEN <<>> ELSE Head(ss) \o Concat(Tail(ss))

RECURSIVE Join(_, _)
\* sep.join(ss)
Join(sep, ss) ==
    IF ss = <<>> THEN <<>>
    ELSE IF Len(ss) = 1 THEN ss[1]
    ELSE ss[1] \o sep \o Join(sep, Tail(ss))

\* repr(c) of one character inside a string literal quoted with q
ReprChar(c, q) ==
    IF c = "\\" THEN <<"\\", "\\">>
    ELSE IF c = q THEN <<"\\", q>>
    ELSE IF c = "\n" THEN <<"\\", "n">>
    ELSE IF c = "\r" THEN <<"\\", "r">>
    ELSE IF c = "\t" THEN <<"\\", "t">>
    ELSE IF c \in Escaped
    THEN Escapes[CHOOSE k \in 1..Len(Unprintable) : Unprintable[k] = c]
    ELSE <<c>>

\* repr(s) of a str: single quotes, double quotes when s holds ' and no "
ReprStr(s) ==
    LET q == IF (\E k \in 1..Len(s) : s[k] = "'") /\ ~(\E k \in 1..Len(s) : s[k] = "\"")
             THEN "\"" ELSE "'"
    IN  <<q>> \o Concat([k \in 1..Len(s) |-> ReprChar(s[k], q)]) \o <<q>>

\* str(xs) of a list of str
StrList(xs) == <<"[">> \o Join(<<",", " ">>, [k \in 1..Len(xs) |-> ReprStr(xs[k])]) \o <<"]">>

\* str(rows) of a list of lists of str
StrRows(rows) == <<"[">> \o Join(<<",", " ">>, [k \in 1..Len(rows) |-> StrList(rows[k])]) \o <<"]">>

(***************************************************************************)
(* src/SOP_Structure_Formation.py: configuration                           *)
(***************************************************************************)
sVersion == <<"V", "e", "r", "s", "i", "o", "n">>
sDate == <<"D", "a", "t", "e">>
sDescription == <<"D", "e", "s", "c", "r", "i", "p", "t", "i", "o", "n">>
sContributor == <<"C", "o", "n", "t", "r", "i", "b", "u", "t", "o", "r">>
sResponsible == <<"R", "e", "s", "p", "o", "n", "s", "i", "b", "l", "e">>
sAccountable == <<"A", "c", "c", "o", "u", "n", "t", "a", "b", "l", "e">>
sConsulted == <<"C", "o", "n", "s", "u", "l", "t", "e", "d">>
sInformed == <<"I", "n", "f", "o", "r", "m", "e", "d">>

METADATA_KEYWORDS == {sResponsible, sAccountable, sConsulted, sInformed}
REVISION_HEADERS == <<sVersion, sDate, sDescription, sContributor>>

(***************************************************************************)
(* _categorize_tables                                                      *)
(***************************************************************************)
\* any(kw in str(rows) for kw in METADATA_KEYWORDS)
HasMetadataKeyword(rows) == \E kw \in METADATA_KEYWORDS : Contains(StrRows(rows), kw)

\* mutant: the guard "not metadata_table" is dropped
M_TakesMetadata_Always(meta, rows) == HasMetadataKeyword(rows)

\* line 66: not metadata_table and any(...)
TakesMetadata(meta, rows) == meta = <<>> /\ HasMetadataKeyword(rows)

\* mutant: the header is compared as a list
M_IsRevisionHeader_Ordered(header) == header = REVISION_HEADERS

\* line 70: set(header) == set(REVISION_HEADERS)
IsRevisionHeader(header) == Range(header) = Range(REVISION_HEADERS)

\* line 73: is_revision_section and len(header) == len(REVISION_HEADERS)
IsRevisionContinuation(inRev, header) == inRev /\ Len(header) = Len(REVISION_HEADERS)

CatTable == tables[cat_i]
CatRows == CatTable.rows
CatInLoop == cat_pc = "loop" /\ cat_i <= Len(tables)

\* lines 60-62: a table without rows is skipped
CatSkipEmpty ==
    /\ CatInLoop
    /\ CatRows = <<>>
    /\ cat_i' = cat_i + 1
    /\ UNCHANGED <<cat_pc, tables, metadata_table, revision_rows, body_tables,
                   is_revision_section, meta_src, rev_src, body_src>>
    /\ UNCHANGED notCat

\* mutant: the "continue" of line 68 is dropped and the table falls through to line 77
M_CatMetadata_NoContinue ==
    /\ cat_pc = "loop" /\ cat_i <= Len(tables)
    /\ tables[cat_i].rows # <<>>
    /\ TakesMetadata(metadata_table, tables[cat_i].rows)
    /\ metadata_table' = <<tables[cat_i]>>
    /\ meta_src' = <<cat_i>>
    /\ is_revision_section' = FALSE
    /\ body_tables' = Append(body_tables, tables[cat_i])
    /\ body_src' = Append(body_src, cat_i)
    /\ cat_i' = cat_i + 1
    /\ UNCHANGED <<cat_pc, tables, revision_rows, rev_src>>
    /\ UNCHANGED notCat

\* lines 66-68: the metadata table is taken and the iteration ends (continue)
CatMetadata ==
    /\ CatInLoop
    /\ CatRows # <<>>
    /\ TakesMetadata(metadata_table, CatRows)
    /\ metadata_table' = <<CatTable>>
    /\ meta_src' = <<cat_i>>
    /\ cat_i' = cat_i + 1
    /\ UNCHANGED <<cat_pc, tables, revision_rows, body_tables, is_revision_section,
                   rev_src, body_src>>
    /\ UNCHANGED notCat

\* lines 70-72
CatRevisionHeader ==
    /\ CatInLoop
    /\ CatRows # <<>>
    /\ ~TakesMetadata(metadata_table, CatRows)
    /\ IsRevisionHeader(CatRows[1])
    /\ is_revision_section' = TRUE
    /\ revision_rows' = revision_rows \o Tail(CatRows)
    /\ rev_src' = rev_src \o [k \in 1..(Len(CatRows) - 1) |-> cat_i]
    /\ cat_i' = cat_i + 1
    /\ UNCHANGED <<cat_pc, tables, metadata_table, body_tables, meta_src, body_src>>
    /\ UNCHANGED notCat

\* mutant: a continuation table is appended like a header table, without its first row
M_CatRevisionContinuation_DropsFirstRow ==
    /\ cat_pc = "loop" /\ cat_i <= Len(tables)
    /\ tables[cat_i].rows # <<>>
    /\ ~TakesMetadata(metadata_table, tables[cat_i].rows)
    /\ ~IsRevisionHeader(tables[cat_i].rows[1])
    /\ IsRevisionContinuation(is_revision_section, tables[cat_i].rows[1])
    /\ revision_rows' = revision_rows \o Tail(tables[cat_i].rows)
    /\ rev_src' = rev_src \o [k \in 1..(Len(tables[cat_i].rows) - 1) |-> cat_i]
    /\ cat_i' = cat_i + 1
    /\ UNCHANGED <<cat_pc, tables, metadata_table, body_tables, is_revision_section,
                   meta_src, body_src>>
    /\ UNCHANGED notCat

\* lines 73-74
CatRevisionContinuation ==
    /\ CatInLoop
    /\ CatRows # <<>>
    /\ ~TakesMetadata(metadata_table, CatRows)
    /\ ~IsRevisionHeader(CatRows[1])
    /\ IsRevisionContinuation(is_revision_section, CatRows[1])
    /\ revision_rows' = revision_rows \o CatRows
    /\ rev_src' = rev_src \o [k \in 1..Len(CatRows) |-> cat_i]
    /\ cat_i' = cat_i + 1
    /\ UNCHANGED <<cat_pc, tables, metadata_table, body_tables, is_revision_section,
                   meta_src, body_src>>
    /\ UNCHANGED notCat

\* mutant: line 76 is dropped, revision mode is never left
M_CatBody_NoReset ==
    /\ cat_pc = "loop" /\ cat_i <= Len(tables)
    /\ tables[cat_i].rows # <<>>
    /\ ~TakesMetadata(metadata_table, tables[cat_i].rows)
    /\ ~IsRevisionHeader(tables[cat_i].rows[1])
    /\ ~IsRevisionContinuation(is_revision_section, tables[cat_i].rows[1])
    /\ body_tables' = Append(body_tables, tables[cat_i])
    /\ body_src' = Append(body_src, cat_i)
    /\ cat_i' = cat_i + 1
    /\ UNCHANGED <<cat_pc, tables, metadata_table, revision_rows, meta_src, rev_src,
                   is_revision_section>>
    /\ UNCHANGED notCat

\* lines 75-77
CatBody ==
    /\ CatInLoop
    /\ CatRows # <<>>
    /\ ~TakesMetadata(metadata_table, CatRows)
    /\ ~IsRevisionHeader(CatRows[1])
    /\ ~IsRevisionContinuation(is_revision_section, CatRows[1])
    /\ is_revision_section' = FALSE
    /\ body_tables' = Append(body_tables, CatTable)
    /\ body_src' = Append(body_src, cat_i)
    /\ cat_i' = cat_i + 1
    /\ UNCHANGED <<cat_pc, tables, metadata_table, revision_rows, meta_src, rev_src>>
    /\ UNCHANGED notCat

\* line 79: return metadata_table, revision_rows, body_tables
CatReturn ==
    /\ cat_pc = "loop"
    /\ cat_i > Len(tables)
    /\ cat_pc' = "done"
    /\ UNCHANGED <<tables, cat_i, metadata_table, revision_rows, body_tables,
                   is_revision_section, meta_src, rev_src, body_src>>
    /\ UNCHANGED notCat

(***************************************************************************)
(* Python's re, as far as HEADING_REGEX and MAIN_SECTION_REGEX use it.      *)
(* A pattern is a tree of records.  Match(r, s, p, ic) is the list of the   *)
(* offsets at which a match of r that starts at offset p of s can end, in   *)
(* the order in which the backtracking matcher tries them: its head is the  *)
(* end of the match the matcher reports.  ic is re.IGNORECASE.              *)
(***************************************************************************)
RxLit(c) == [t |-> "lit", c |-> c]
RxCls(k) == [t |-> "cls", k |-> k]
RxSeq(rs) == [t |-> "seq", rs |-> rs]
RxAlt(rs) == [t |-> "alt", rs |-> rs]
\* r{lo,hi}, greedy; hi = -1: no upper limit
RxRep(r, lo, hi) == [t |-> "rep", r |-> r, lo |-> lo, hi |-> hi]
RxPlus(r) == RxRep(r, 1, -1)
RxStar(r) == RxRep(r, 0, -1)
RxOpt(r) == RxRep(r, 0, 1)
\* ^ and $ under re.MULTILINE
RxBol == [t |-> "bol"]
RxEol == [t |-> "eol"]
\* (?!r)
RxNotAhead(r) == [t |-> "nla", r |-> r]
\* a literal word
RxWord(w) == RxSeq([k \in 1..Len(w) |-> RxLit(w[k])])

rxD == RxCls("d")
rxS == RxCls("s")
rxW == RxCls("w")
rxAny == RxCls("dot")

\* membership of character c in class k
InClass(k, c, ic) ==
    CASE k = "d" -> IsDigit(c)
      [] k = "s" -> IsSpace(c)
      [] k = "w" -> IsWord(c)
      [] k = "dot" -> IsDot(c)
      [] k = "AZ&s" -> \/ c \in AsciiUpper
                       \/ (ic /\ Fold(c) \in AsciiLower)
                       \/ c = "&"
                       \/ IsSpace(c)

RECURSIVE Match(_, _, _, _), MatchSeq(_, _, _, _, _), MatchRep(_, _, _, _, _), MatchEach(_, _, _, _, _)

\* one character against a literal or a class
MatchChar(r, c, ic) ==
    IF r.t = "lit" THEN (IF ic THEN Fold(c) = Fold(r.c) ELSE c = r.c)
    ELSE InClass(r.k, c, ic)

\* r.r{lo,hi} for a one-character r.r: the run of matching characters from p,
\* longest repetition first
MatchRun(r, s, p, ic) ==
    LET cap == IF r.hi = -1 \/ p + r.hi > Len(s) THEN Len(s) - p ELSE r.hi
        ok == {n \in 0..cap : \A k \in 1..n : MatchChar(r.r, s[p + k], ic)}
        run == CHOOSE n \in ok : \A m \in ok : m <= n
    IN  IF run < r.lo THEN <<>> ELSE [k \in 1..(run - r.lo + 1) |-> p + run - k + 1]

Match(r, s, p, ic) ==
    CASE r.t \in {"lit", "cls"} ->
            IF p < Len(s) /\ MatchChar(r, s[p + 1], ic) THEN <<p + 1>> ELSE <<>>
      [] r.t = "bol" -> IF p = 0 \/ s[p] = "\n" THEN <<p>> ELSE <<>>
      [] r.t = "eol" -> IF p = Len(s) \/ s[p + 1] = "\n" THEN <<p>> ELSE <<>>
      [] r.t = "nla" -> IF Match(r.r, s, p, ic) = <<>> THEN <<p>> ELSE <<>>
      [] r.t = "seq" -> MatchSeq(r.rs, 1, s, p, ic)
      [] r.t = "alt" ->
            Concat([k \in 1..Len(r.rs) |-> Match(r.rs[k], s, p, ic)])
      [] r.t = "rep" ->
            IF r.r.t \in {"lit", "cls"} THEN MatchRun(r, s, p, ic) ELSE MatchRep(r, 0, s, p, ic)

\* rs[i..] matched from p
MatchSeq(rs, i, s, p, ic) ==
    IF i > Len(rs) THEN <<p>>
    ELSE LET ends == Match(rs[i], s, p, ic)
         IN  Concat([k \in 1..Len(ends) |-> MatchSeq(rs, i + 1, s, ends[k], ic)])

\* r.r repeated, n repetitions done: one more is tried before stopping (greedy)
MatchRep(r, n, s, p, ic) ==
    LET more == IF r.hi = -1 \/ n < r.hi
                THEN MatchEach(r, n + 1, s, Match(r.r, s, p, ic), ic)
                ELSE <<>>
        stop == IF n >= r.lo THEN <<p>> ELSE <<>>
    IN  more \o stop

MatchEach(r, n, s, ends, ic) ==
    Concat([k \in 1..Len(ends) |-> MatchRep(r, n, s, ends[k], ic)])

(***************************************************************************)
(* HEADING_REGEX and MAIN_SECTION_REGEX                                    *)
(***************************************************************************)
\* \d+(?:\.\d+)*
rxNumeral == RxSeq(<<RxPlus(rxD), RxStar(RxSeq(<<RxLit("."), RxPlus(rxD)>>))>>)

\* line 13: \d+(?:\.\d+)*\s*$
ExclNumeral == RxSeq(<<rxNumeral, RxStar(rxS), RxEol>>)
\* line 14: and\s+\d+\s*$
ExclAndN == RxSeq(<<RxWord(<<"a", "n", "d">>), RxPlus(rxS), RxPlus(rxD), RxStar(rxS), RxEol>>)
\* line 15: and\s+Box\s+\d+\s*$
ExclAndBoxN ==
    RxSeq(<<RxWord(<<"a", "n", "d">>), RxPlus(rxS), RxWord(<<"B", "o", "x">>), RxPlus(rxS), RxPlus(rxD),
            RxStar(rxS), RxEol>>)
\* line 16: with\s+\w+(?:'\w+)?\s*$
ExclWith ==
    RxSeq(<<RxWord(<<"w", "i", "t", "h">>), RxPlus(rxS), RxPlus(rxW),
            RxOpt(RxSeq(<<RxLit("'"), RxPlus(rxW)>>)), RxStar(rxS), RxEol>>)
\* line 17: for\s+\w+\s*$
ExclFor == RxSeq(<<RxWord(<<"f", "o", "r">>), RxPlus(rxS), RxPlus(rxW), RxStar(rxS), RxEol>>)
\* line 18: threshold\s+for\s*$
ExclThresholdFor ==
    RxSeq(<<RxWord(<<"t", "h", "r", "e", "s", "h", "o", "l", "d">>), RxPlus(rxS), RxWord(<<"f", "o", "r">>), RxStar(rxS), RxEol>>)
\* line 19: \w{3,9}\s+\d{1,2},\s+\d{4}\s*$
ExclDate ==
    RxSeq(<<RxRep(rxW, 3, 9), RxPlus(rxS), RxRep(rxD, 1, 2), RxLit(","), RxPlus(rxS),
            RxRep(rxD, 4, 4), RxStar(rxS), RxEol>>)
\* line 20: \d{4}\s+period\s*$
ExclYearPeriod ==
    RxSeq(<<RxRep(rxD, 4, 4), RxPlus(rxS), RxWord(<<"p", "e", "r", "i", "o", "d">>), RxStar(rxS), RxEol>>)
\* line 21: Added\s+[A-Z&\s]+\s*$
ExclAdded ==
    RxSeq(<<RxWord(<<"A", "d", "d", "e", "d">>), RxPlus(rxS), RxPlus(RxCls("AZ&s")), RxStar(rxS), RxEol>>)

\* lines 13-21: the alternatives of the negative lookahead
HEADING_EXCLUSIONS ==
    RxAlt(<<ExclNumeral, ExclAndN, ExclAndBoxN, ExclWith, ExclFor, ExclThresholdFor,
            ExclDate, ExclYearPeriod, ExclAdded>>)

\* the \s+ of line 12 that separates the numeral from the rest
HeadingGap == RxPlus(rxS)

\* lines 11-24: ^(\d+(?:\.\d+)*\s+(?!...).{3,})$ with MULTILINE | IGNORECASE;
\* group 1 spans the whole match
HEADING_REGEX ==
    RxSeq(<<RxBol, rxNumeral, HeadingGap, RxNotAhead(HEADING_EXCLUSIONS),
            RxRep(rxAny, 3, -1), RxEol>>)

\* line 27: ^\d+\s, no flags
MAIN_SECTION_REGEX == RxSeq(<<RxPlus(rxD), rxS>>)

\* MAIN_SECTION_REGEX.match(heading)
IsMainSection(heading) == Match(MAIN_SECTION_REGEX, heading, 0, FALSE) # <<>>

RECURSIVE M_FindIter_Overlapping(_, _)
\* mutant: after a match the scan goes on one character after its start
M_FindIter_Overlapping(s, pos) ==
    LET at == {p \in pos..Len(s) : Match(HEADING_REGEX, s, p, TRUE) # <<>>}
    IN  IF at = {} THEN <<>>
        ELSE LET p == CHOOSE a \in at : \A b \in at : a <= b
                 e == Head(Match(HEADING_REGEX, s, p, TRUE))
             IN  <<[heading |-> Strip(Slice(s, p, e)), start |-> p, end |-> e]>>
                     \o M_FindIter_Overlapping(s, p + 1)

RECURSIVE FindIter(_, _)
\* HEADING_REGEX.finditer(s), scanning from offset pos: the leftmost match, then
\* the scan goes on at its end
FindIter(s, pos) ==
    LET at == {p \in pos..Len(s) : Match(HEADING_REGEX, s, p, TRUE) # <<>>}
    IN  IF at = {} THEN <<>>
        ELSE LET p == CHOOSE a \in at : \A b \in at : a <= b
                 e == Head(Match(HEADING_REGEX, s, p, TRUE))
             IN  <<[heading |-> Strip(Slice(s, p, e)), start |-> p, end |-> e]>>
                     \o FindIter(s, IF e > p THEN e ELSE e + 1)

\* lines 36-42 of _parse_sections
ParseHeadings(s) == FindIter(s, 0)

\* lines 46-48: the content of headings[i]
ContentOf(s, hs, i) ==
    LET content_start == hs[i].end
        content_end == IF i + 1 <= Len(hs) THEN hs[i + 1].start ELSE Len(s)
    IN  Strip(Slice(s, content_start, content_end))

\* lines 44-48: content_map, a dict keyed by the heading string: a later heading
\* with the same string overwrites the entry
ContentMap(s, hs) ==
    [h \in {hs[i].heading : i \in 1..Len(hs)} |->
        LET last == CHOOSE i \in 1..Len(hs) :
                        /\ hs[i].heading = h
                        /\ \A j \in 1..Len(hs) : hs[j].heading = h => j <= i
        IN  ContentOf(s, hs, last)]

\* content_map.get(heading, "")
MapGet(m, h) == IF h \in DOMAIN m THEN m[h] ELSE <<>>

(***************************************************************************)
(* SOP_Structure_Formation, lines 87-106: the section tree                 *)
(***************************************************************************)
\* line 94: content_map.get(heading, "").strip()
ContentText(m, heading) == Strip(MapGet(m, heading))

\* line 99
NewSection(heading, content_text) ==
    [Section |-> heading, Sub_sections |-> <<>>, Content |-> content_text]

\* lines 101-104
WithSubSection(section, heading, content_text) ==
    [section EXCEPT !.Sub_sections =
        Append(@, [Sub_section |-> heading, Content |-> content_text])]

SecInLoop == sec_pc = "loop" /\ sec_i <= Len(headings)
SecHeading == headings[sec_i].heading

\* line 87: headings, content_map = _parse_sections(raw_text)
SecParse ==
    /\ sec_pc = "parse"
    /\ headings' = ParseHeadings(raw_text)
    /\ content_map' = ContentMap(raw_text, headings')
    /\ sec_pc' = "loop"
    /\ UNCHANGED <<raw_text, sec_i, current_section, structured_body>>
    /\ UNCHANGED notSec

\* lines 96-99: a Section-level heading closes the open section and opens a new one
SecOpenSection ==
    /\ SecInLoop
    /\ IsMainSection(SecHeading)
    /\ structured_body' = structured_body \o current_section
    /\ current_section' = <<NewSection(SecHeading, ContentText(content_map, SecHeading))>>
    /\ sec_i' = sec_i + 1
    /\ UNCHANGED <<sec_pc, raw_text, headings, content_map>>
    /\ UNCHANGED notSec

\* lines 100-104: any other heading goes under the open section
SecAddSubSection ==
    /\ SecInLoop
    /\ ~IsMainSection(SecHeading)
    /\ current_section # <<>>
    /\ current_section' =
          <<WithSubSection(current_section[1], SecHeading,
                           ContentText(content_map, SecHeading))>>
    /\ sec_i' = sec_i + 1
    /\ UNCHANGED <<sec_pc, raw_text, headings, content_map, structured_body>>
    /\ UNCHANGED notSec

\* line 100, condition false: no section is open, the heading is passed over
SecDropSubSection ==
    /\ SecInLoop
    /\ ~IsMainSection(SecHeading)
    /\ current_section = <<>>
    /\ sec_i' = sec_i + 1
    /\ UNCHANGED <<sec_pc, raw_text, headings, content_map, current_section,
                   structured_body>>
    /\ UNCHANGED notSec

\* lines 105-106: the section still open is closed
SecClose ==
    /\ sec_pc = "loop"
    /\ sec_i > Len(headings)
    /\ structured_body' = structured_body \o current_section
    /\ sec_pc' = "done"
    /\ UNCHANGED <<raw_text, headings, content_map, sec_i, current_section>>
    /\ UNCHANGED notSec

(***************************************************************************)
(* src/Extract_Text_Lambda.py                                              *)
(* A block is a record [Id, BlockType, Text, Page, Box, Relationships,     *)
(* RowIndex, ColumnIndex, SelectionStatus]; Page and Box are optional      *)
(* (<<>> when the key is absent), Box is Geometry.BoundingBox.  Lengths    *)
(* are whole numbers of one unit; the centre of a box is compared doubled, *)
(* so that Width / 2 needs no fraction.                                    *)
(***************************************************************************)
\* block.get("Page", 1)
PageOf(block) == IF block.Page = <<>> THEN 1 ELSE block.Page[1]

\* block_map.get(id) for block_map = {block["Id"]: block for block in blocks}
BlockMapGet(bs, id) ==
    LET S == {k \in 1..Len(bs) : bs[k].Id = id}
    IN  IF S = {} THEN <<>> ELSE <<bs[CHOOSE k \in S : \A j \in S : j <= k]>>

\* the Ids of the CHILD relationships of a block, in order
ChildIds(block) ==
    Concat([k \in 1..Len(block.Relationships) |->
               IF block.Relationships[k].Type = "CHILD"
               THEN block.Relationships[k].Ids ELSE <<>>])

\* lines 101-107: what one child of a cell adds to its text
WordText(bs, child_id) ==
    LET word == BlockMapGet(bs, child_id)
    IN  IF word = <<>> THEN <<>>
        ELSE IF word[1].BlockType = "WORD" THEN word[1].Text \o <<" ">>
        ELSE IF word[1].BlockType = "SELECTION_ELEMENT"
             THEN (IF word[1].SelectionStatus = "SELECTED"
                   THEN <<"[", "X", "]", " ">> ELSE <<"[", " ", "]", " ">>)
        ELSE <<>>

\* lines 95-109: text.strip() of a cell
CellText(bs, cell) ==
    LET ids == ChildIds(cell)
    IN  Strip(Concat([k \in 1..Len(ids) |-> WordText(bs, ids[k])]))

RECURSIVE CellsOf(_, _)
\* lines 88-91: the children of a table that are CELL blocks, in order
CellsOf(bs, ids) ==
    IF ids = <<>> THEN <<>>
    ELSE LET cell == BlockMapGet(bs, Head(ids))
         IN  (IF cell # <<>> /\ cell[1].BlockType = "CELL" THEN cell ELSE <<>>)
                 \o CellsOf(bs, Tail(ids))

RECURSIVE Sorted(_)
\* sorted(S) for a set of integers
Sorted(S) ==
    IF S = {} THEN <<>>
    ELSE LET m == CHOOSE a \in S : \A b \in S : a <= b
         IN  <<m>> \o Sorted(S \ {m})

\* line 109: cells_by_row[row_index][col_index], the last cell assembled there
CellAt(bs, cells, r, c) ==
    LET S == {k \in 1..Len(cells) : cells[k].RowIndex = r /\ cells[k].ColumnIndex = c}
    IN  CellText(bs, cells[CHOOSE k \in S : \A j \in S : j <= k])

\* lines 114-116: the columns present in row r, in ascending order
RowOf(bs, cells, r) ==
    LET cols == Sorted({cells[k].ColumnIndex : k \in {j \in 1..Len(cells) : cells[j].RowIndex = r}})
    IN  [j \in 1..Len(cols) |-> CellAt(bs, cells, r, cols[j])]

\* lines 85-117: sorted_rows of a TABLE block
SortedRows(bs, block) ==
    LET cells == CellsOf(bs, ChildIds(block))
        rws == Sorted({cells[k].RowIndex : k \in 1..Len(cells)})
    IN  [i \in 1..Len(rws) |-> RowOf(bs, cells, rws[i])]

\* is_block_inside_tables with the right and bottom edges left out
M_is_block_inside_tables_OpenEdges(line_block, geometries) ==
    IF line_block.Box = <<>> THEN FALSE
    ELSE LET line_box == line_block.Box[1]
             center_x2 == 2 * line_box.Left + line_box.Width
             center_y2 == 2 * line_box.Top + line_box.Height
         IN  \E k \in 1..Len(geometries) :
                 /\ 2 * geometries[k].Left <= center_x2
                 /\ center_x2 < 2 * (geometries[k].Left + geometries[k].Width)
                 /\ 2 * geometries[k].Top <= center_y2
                 /\ center_y2 < 2 * (geometries[k].Top + geometries[k].Height)

\* lines 52-64
is_block_inside_tables(line_block, geometries) ==
    IF line_block.Box = <<>> THEN FALSE
    ELSE LET line_box == line_block.Box[1]
             center_x2 == 2 * line_box.Left + line_box.Width
             center_y2 == 2 * line_box.Top + line_box.Height
         IN  \E k \in 1..Len(geometries) :
                 /\ 2 * geometries[k].Left <= center_x2
                 /\ center_x2 <= 2 * (geometries[k].Left + geometries[k].Width)
                 /\ 2 * geometries[k].Top <= center_y2
                 /\ center_y2 <= 2 * (geometries[k].Top + geometries[k].Height)

\* line 132: re.search(r"\s{2,}", line_text)
HasColumnGap(text) == \E k \in 1..(Len(text) - 1) : IsSpace(text[k]) /\ IsSpace(text[k + 1])

RECURSIVE SplitGaps(_)
\* re.split(r"\s{2,}", s)
SplitGaps(s) ==
    LET at == {p \in 0..(Len(s) - 2) : IsSpace(s[p + 1]) /\ IsSpace(s[p + 2])}
    IN  IF at = {} THEN <<s>>
        ELSE LET p == CHOOSE a \in at : \A b \in at : a <= b
                 run == {e \in (p + 2)..Len(s) : \A k \in (p + 1)..e : IsSpace(s[k])}
                 e == CHOOSE a \in run : \A b \in run : b <= a
             IN  <<Slice(s, 0, p)>> \o SplitGaps(Slice(s, e, Len(s)))

\* lines 136, 145: parsed_rows
ParsedRows(buf) == [k \in 1..Len(buf) |-> SplitGaps(Strip(buf[k]))]

\* lines 135-141 and 144-150: the tables with a buffer of 2 or more lines flushed
Flushed(tbls, page_num, buf) ==
    IF Len(buf) >= 2
    THEN Append(tbls, [page |-> page_num, source |-> "FALLBACK_REGEX", rows |-> ParsedRows(buf)])
    ELSE tbls

\* line 79: page_line_blocks.setdefault(page_number, []).append(block)
WithLine(plb, page_number, block) ==
    IF \E k \in 1..Len(plb) : plb[k].page = page_number
    THEN [k \in 1..Len(plb) |->
             IF plb[k].page = page_number
             THEN [plb[k] EXCEPT !.line_blocks = Append(@, block)]
             ELSE plb[k]]
    ELSE Append(plb, [page |-> page_number, line_blocks |-> <<block>>])

ExtBlock == blocks[ext_i]
ExtInBlocks == ext_pc = "blocks" /\ ext_i <= Len(blocks)

\* lines 76-79
ExtLine ==
    /\ ExtInBlocks
    /\ ExtBlock.BlockType = "LINE"
    /\ raw_text_lines' = Append(raw_text_lines, ExtBlock.Text)
    /\ page_line_blocks' = WithLine(page_line_blocks, PageOf(ExtBlock), ExtBlock)
    /\ ext_i' = ext_i + 1
    /\ UNCHANGED <<ext_pc, blocks, ext_tables, table_geometries, fb_p, fb_l, buffer,
                   ext_raw_text, tbl_src>>
    /\ UNCHANGED notExt

\* lines 81-123
ExtTable ==
    /\ ExtInBlocks
    /\ ExtBlock.BlockType = "TABLE"
    /\ table_geometries' = table_geometries \o ExtBlock.Box
    /\ ext_tables' = Append(ext_tables,
                            [page |-> PageOf(ExtBlock), source |-> "TEXTRACT_TABLE",
                             rows |-> SortedRows(blocks, ExtBlock)])
    /\ tbl_src' = Append(tbl_src, ext_i)
    /\ ext_i' = ext_i + 1
    /\ UNCHANGED <<ext_pc, blocks, raw_text_lines, page_line_blocks, fb_p, fb_l, buffer,
                   ext_raw_text>>
    /\ UNCHANGED notExt

\* lines 75-81: a block that is neither a LINE nor a TABLE
ExtOther ==
    /\ ExtInBlocks
    /\ ExtBlock.BlockType \notin {"LINE", "TABLE"}
    /\ ext_i' = ext_i + 1
    /\ UNCHANGED <<ext_pc, blocks, raw_text_lines, ext_tables, table_geometries,
                   page_line_blocks, fb_p, fb_l, buffer, ext_raw_text, tbl_src>>
    /\ UNCHANGED notExt

\* line 125: the first loop is over, the loop over the pages starts
ExtStartPages ==
    /\ ext_pc = "blocks"
    /\ ext_i > Len(blocks)
    /\ ext_pc' = "pages"
    /\ fb_p' = 1
    /\ fb_l' = 1
    /\ buffer' = <<>>
    /\ UNCHANGED <<blocks, ext_i, raw_text_lines, ext_tables, table_geometries,
                   page_line_blocks, ext_raw_text, tbl_src>>
    /\ UNCHANGED notExt

FbInPage ==
    /\ ext_pc = "pages"
    /\ fb_p <= Len(page_line_blocks)
    /\ fb_l <= Len(page_line_blocks[fb_p].line_blocks)
FbLine == page_line_blocks[fb_p].line_blocks[fb_l]

\* mutant: a line inside a table ends the run like a line without a column gap
M_FbInside_ClosesRun ==
    /\ ext_pc = "pages"
    /\ fb_p <= Len(page_line_blocks)
    /\ fb_l <= Len(page_line_blocks[fb_p].line_blocks)
    /\ is_block_inside_tables(page_line_blocks[fb_p].line_blocks[fb_l], table_geometries)
    /\ ext_tables' = Flushed(ext_tables, page_line_blocks[fb_p].page, buffer)
    /\ tbl_src' = IF Len(buffer) >= 2 THEN Append(tbl_src, 0) ELSE tbl_src
    /\ buffer' = <<>>
    /\ fb_l' = fb_l + 1
    /\ UNCHANGED <<ext_pc, blocks, ext_i, raw_text_lines, table_geometries,
                   page_line_blocks, fb_p, ext_raw_text>>
    /\ UNCHANGED notExt

\* lines 128-129: a line inside a table is passed over
FbInside ==
    /\ FbInPage
    /\ is_block_inside_tables(FbLine, table_geometries)
    /\ fb_l' = fb_l + 1
    /\ UNCHANGED <<ext_pc, blocks, ext_i, raw_text_lines, ext_tables, table_geometries,
                   page_line_blocks, fb_p, buffer, ext_raw_text, tbl_src>>
    /\ UNCHANGED notExt

\* lines 131-133: a line with a run of 2 or more whitespace characters is buffered
FbBuffer ==
    /\ FbInPage
    /\ ~is_block_inside_tables(FbLine, table_geometries)
    /\ HasColumnGap(FbLine.Text)
    /\ buffer' = Append(buffer, FbLine.Text)
    /\ fb_l' = fb_l + 1
    /\ UNCHANGED <<ext_pc, blocks, ext_i, raw_text_lines, ext_tables, table_geometries,
                   page_line_blocks, fb_p, ext_raw_text, tbl_src>>
    /\ UNCHANGED notExt

\* lines 134-142: any other line ends the run
FbBreak ==
    /\ FbInPage
    /\ ~is_block_inside_tables(FbLine, table_geometries)
    /\ ~HasColumnGap(FbLine.Text)
    /\ ext_tables' = Flushed(ext_tables, page_line_blocks[fb_p].page, buffer)
    /\ tbl_src' = IF Len(buffer) >= 2 THEN Append(tbl_src, 0) ELSE tbl_src
    /\ buffer' = <<>>
    /\ fb_l' = fb_l + 1
    /\ UNCHANGED <<ext_pc, blocks, ext_i, raw_text_lines, table_geometries,
                   page_line_blocks, fb_p, ext_raw_text>>
    /\ UNCHANGED notExt

\* lines 144-150, then lines 125-126 for the next page
FbPageEnd ==
    /\ ext_pc = "pages"
    /\ fb_p <= Len(page_line_blocks)
    /\ fb_l > Len(page_line_blocks[fb_p].line_blocks)
    /\ ext_tables' = Flushed(ext_tables, page_line_blocks[fb_p].page, buffer)
    /\ tbl_src' = IF Len(buffer) >= 2 THEN Append(tbl_src, 0) ELSE tbl_src
    /\ buffer' = <<>>
    /\ fb_p' = fb_p + 1
    /\ fb_l' = 1
    /\ UNCHANGED <<ext_pc, blocks, ext_i, raw_text_lines, table_geometries,
                   page_line_blocks, ext_raw_text>>
    /\ UNCHANGED notExt

\* line 152: return "\n".join(raw_text_lines), tables
ExtReturn ==
    /\ ext_pc = "pages"
    /\ fb_p > Len(page_line_blocks)
    /\ ext_raw_text' = Join(<<"\n">>, raw_text_lines)
    /\ ext_pc' = "done"
    /\ UNCHANGED <<blocks, ext_i, raw_text_lines, ext_tables, table_geometries,
                   page_line_blocks, fb_p, fb_l, buffer, tbl_src>>
    /\ UNCHANGED notExt

(***************************************************************************)
(* Inputs of _categorize_tables                                            *)
(***************************************************************************)
MaxTables == 3

sx == <<"x">>
s1 == <<"1">>
sxInformed == <<"x">> \o sInformed

Table(rows) == [rows |-> rows, page |-> 1, source |-> "TEXTRACT_TABLE"]

TableChoices ==
    { Table(<<>>),
      Table(<<REVISION_HEADERS, <<s1, sx, sx, sx>>>>),
      Table(<<REVISION_HEADERS>>),
      Table(<<<<sContributor, sDate, sVersion, sDescription, sDate>>, <<s1, sx, sx, sx>>>>),
      Table(<<<<sx, sx, sx, sx>>>>),
      Table(<<<<sx, sx, sx>>, <<sx, s1, sx>>>>),
      Table(<<<<sResponsible, sx>>>>),
      Table(<<<<sx, sx, sx, sxInformed>>>>),
      Table(<<REVISION_HEADERS, <<s1, sx, sAccountable, sx>>>>) }

SeqsUpTo(S, n) == UNION {[1..k -> S] : k \in 0..n}

\* the document model is not being assembled
DocIdle ==
    /\ doc_pc = "idle"
    /\ final_output = <<>>

StIdle ==
    /\ st_pc = "idle"
    /\ grids = <<>>
    /\ st_i = 1
    /\ last_header = <<>>
    /\ structured_tables = <<>>
    /\ st_mode = <<>>

CaIdle ==
    /\ ca_pc = "idle"
    /\ ca_event = <<>>
    /\ ca_i = 1
    /\ ca_attempts = <<>>
    /\ formatted_results = <<>>
    /\ ca_return = <<>>

InIdle ==
    /\ in_pc = "idle"
    /\ in_line = <<>>
    /\ in_boxes = <<>>
    /\ in_result = <<>>

UrlIdle ==
    /\ upload_bucket = <<>>
    /\ presign_raises = <<>>
    /\ url_pc = "idle"
    /\ url_event = <<>>
    /\ url_folder = <<>>
    /\ url_generated = <<>>
    /\ url_response = <<>>

HIdle ==
    /\ h_pc = "idle"
    /\ h_event = <<>>
    /\ h_doc = <<>>
    /\ h_key = <<>>
    /\ job = "NONE"
    /\ observed = <<>>
    /\ h_complete = <<>>
    /\ next_token = 0
    /\ all_blocks = <<>>
    /\ put_object_calls = <<>>
    /\ h_return = <<>>

\* none of the operations modelled after the document model is running
LateIdle == StIdle /\ CaIdle /\ InIdle /\ UrlIdle /\ HIdle

\* none of the operations modelled after the first three is running
NewIdle == DocIdle /\ LateIdle

\* the section builder is not running
SecIdle ==
    /\ sec_pc = "idle"
    /\ raw_text = <<>>
    /\ headings = <<>>
    /\ content_map = <<>>
    /\ sec_i = 1
    /\ current_section = <<>>
    /\ structured_body = <<>>

\* the extraction is not running
ExtIdle ==
    /\ ext_pc = "idle"
    /\ blocks = <<>>
    /\ ext_i = 1
    /\ raw_text_lines = <<>>
    /\ ext_tables = <<>>
    /\ table_geometries = <<>>
    /\ page_line_blocks = <<>>
    /\ fb_p = 1
    /\ fb_l = 1
    /\ buffer = <<>>
    /\ ext_raw_text = <<>>
    /\ tbl_src = <<>>

CatInit ==
    /\ SecIdle
    /\ ExtIdle
    /\ NewIdle
    /\ cat_pc = "loop"
    /\ tables \in SeqsUpTo(TableChoices, MaxTables)
    /\ cat_i = 1
    /\ metadata_table = <<>>
    /\ revision_rows = <<>>
    /\ body_tables = <<>>
    /\ is_revision_section = FALSE
    /\ meta_src = <<>>
    /\ rev_src = <<>>
    /\ body_src = <<>>

CatNext ==
    \/ CatSkipEmpty
    \/ CatMetadata
    \/ CatRevisionHeader
    \/ CatRevisionContinuation
    \/ CatBody
    \/ CatReturn

SpecCategorize == CatInit /\ [][CatNext]_vars

(***************************************************************************)
(* Properties of _categorize_tables                                        *)
(***************************************************************************)
\* the tables the loop has visited so far
CatVisited == 1..(cat_i - 1)

\* the rows of revision_rows that came from table k, in order
RevRowsFrom(k) ==
    LET F[n \in 0..Len(revision_rows)] ==
            IF n = 0 THEN <<>>
            ELSE IF rev_src[n] = k THEN Append(F[n - 1], revision_rows[n])
            ELSE F[n - 1]
    IN  F[Len(revision_rows)]

\* each output holds what its history says it holds
CatProvenance ==
    /\ Len(meta_src) = Len(metadata_table)
    /\ \A j \in 1..Len(meta_src) : metadata_table[j] = tables[meta_src[j]]
    /\ Len(body_src) = Len(body_tables)
    /\ \A j \in 1..Len(body_src) : body_tables[j] = tables[body_src[j]]
    /\ Len(rev_src) = Len(revision_rows)
    /\ \A j \in 1..Len(rev_src) : revision_rows[j] \in Range(tables[rev_src[j]].rows)

\* the first row of table k, read as a set, is {Version, Date, Description, Contributor}
HasRevisionHeaderSet(k) ==
    /\ tables[k].rows # <<>>
    /\ {tables[k].rows[1][j] : j \in 1..Len(tables[k].rows[1])}
           = {sVersion, sDate, sDescription, sContributor}

\* C2: every table is in at most one of the three outputs: the metadata table is
\* no body table, and no row of the metadata table or of a body table is among
\* the revision rows.
Thm_C2_Exclusive ==
    /\ CatProvenance
    /\ Range(meta_src) \cap Range(body_src) = {}
    /\ Range(meta_src) \cap Range(rev_src) = {}
    /\ Range(body_src) \cap Range(rev_src) = {}
    /\ \A a, b \in 1..Len(body_src) : body_src[a] = body_src[b] => a = b

Wit_C2_AllThreeOutputs ==
    /\ cat_pc = "done"
    /\ meta_src # <<>>
    /\ body_src # <<>>
    /\ rev_src # <<>>

\* C4: a visited table that is not the metadata table and whose first row, as a
\* set, is the revision header set contributes exactly its rows after the first,
\* in order, to the revision rows, is no body table, and leaves the classifier
\* in revision mode right after it is visited.
Thm_C4_RevisionHeaderTable ==
    \A k \in CatVisited :
        (HasRevisionHeaderSet(k) /\ k \notin Range(meta_src)) =>
            /\ RevRowsFrom(k) = Tail(tables[k].rows)
            /\ k \notin Range(body_src)
            /\ (cat_i = k + 1 => is_revision_section = TRUE)

\* a permuted header with a repeated cell, met outside revision mode, after a body table
Wit_C4_PermutedHeader ==
    /\ cat_pc = "done"
    /\ \E k \in 2..Len(tables) :
        /\ HasRevisionHeaderSet(k)
        /\ tables[k].rows[1] # REVISION_HEADERS
        /\ k \notin Range(meta_src)
        /\ (k - 1) \in Range(body_src)
        /\ RevRowsFrom(k) # <<>>

\* table k was put among the revision output: it carries the revision header
\* set, or rows of it were appended to the revision rows
InRevisionOutput(k) ==
    k \notin Range(meta_src) /\ (HasRevisionHeaderSet(k) \/ k \in Range(rev_src))

\* a visited table with rows that was not taken as the metadata table
CatClassified(k) == k \in CatVisited /\ tables[k].rows # <<>> /\ k \notin Range(meta_src)

\* the nearest table before k that has rows and is not the metadata table (0: none)
PrevClassified(k) ==
    LET S == {j \in 1..(k - 1) : CatClassified(j)}
    IN  IF S = {} THEN 0 ELSE CHOOSE j \in S : \A i \in S : i <= j

\* C5 as stated (read for the tables that have rows and are not the metadata
\* table): a table without the revision header is appended to the revision rows
\* only if its first row has 4 cells and the table immediately before it in the
\* input list was itself put among the revision output; a table matching neither
\* condition is a body table.
Orig_C5_ImmediatelyPreceding ==
    \A k \in CatVisited :
        (CatClassified(k) /\ ~HasRevisionHeaderSet(k)) =>
            /\ k \in Range(rev_src) =>
                  /\ Len(tables[k].rows[1]) = 4
                  /\ k > 1
                  /\ InRevisionOutput(k - 1)
            /\ k \notin Range(rev_src) => k \in Range(body_src)

\* C5 amended: among the tables that have rows and are not taken as the metadata
\* table, a table without the revision header is appended in full to the revision
\* rows exactly when its first row has 4 cells and the nearest preceding such
\* table was put among the revision output; otherwise it is a body table and
\* revision mode is off right after it.
Thm_C5_RevisionContinuation ==
    \A k \in CatVisited :
        (CatClassified(k) /\ ~HasRevisionHeaderSet(k)) =>
            LET cont == /\ Len(tables[k].rows[1]) = 4
                        /\ PrevClassified(k) # 0
                        /\ InRevisionOutput(PrevClassified(k))
            IN  /\ cont => /\ RevRowsFrom(k) = tables[k].rows
                           /\ k \notin Range(body_src)
                /\ ~cont => /\ k \in Range(body_src)
                            /\ k \notin Range(rev_src)
                            /\ (cat_i = k + 1 => is_revision_section = FALSE)

\* a 4-wide table after a body table that ended revision mode is a body table,
\* and a 4-wide table after a continuation is a continuation
Wit_C5_ModeEnded ==
    /\ cat_pc = "done"
    /\ \E k \in 3..Len(tables) :
        /\ Len(tables[k].rows) > 0
        /\ Len(tables[k].rows[1]) = 4
        /\ ~HasRevisionHeaderSet(k)
        /\ k \in Range(body_src)
        /\ (k - 1) \in Range(body_src)
        /\ InRevisionOutput(k - 2)

\* C6: the metadata table is the earliest visited table whose serialized rows
\* contain a keyword, and there is none when no visited table contains one.
Thm_C6_FirstKeywordTable ==
    LET K == {k \in CatVisited : HasMetadataKeyword(tables[k].rows)}
    IN  /\ Len(metadata_table) <= 1
        /\ K = {} => metadata_table = <<>> /\ meta_src = <<>>
        /\ K # {} =>
              LET first == CHOOSE k \in K : \A j \in K : k <= j
              IN  meta_src = <<first>> /\ metadata_table = <<tables[first]>>

\* two keyword tables, the first of them not the first table of the input
Wit_C6_LaterKeywordTable ==
    /\ cat_pc = "done"
    /\ \E k \in 2..Len(tables) :
        /\ meta_src = <<k>>
        /\ \E j \in (k + 1)..Len(tables) :
            HasMetadataKeyword(tables[j].rows) /\ tables[j] # tables[k]

\* the tables among the visited ones whose index is in S, in input order
TablesAt(S) ==
    LET F[n \in 0..Len(tables)] ==
            IF n = 0 THEN <<>>
            ELSE IF n \in S THEN Append(F[n - 1], tables[n])
            ELSE F[n - 1]
    IN  F[Len(tables)]

\* the rows that the visited tables outside S (tables without rows left out)
\* hold, in input order, a table with the revision header set without its first row
RowsOutside(S) ==
    LET F[n \in 0..(cat_i - 1)] ==
            IF n = 0 THEN <<>>
            ELSE IF n \in S \/ tables[n].rows = <<>> THEN F[n - 1]
            ELSE IF HasRevisionHeaderSet(n) THEN F[n - 1] \o Tail(tables[n].rows)
            ELSE F[n - 1] \o tables[n].rows
    IN  F[cat_i - 1]

\* C21: no content of a table with rows is lost: every visited table with at
\* least one row is the metadata table, or a body table, or has all its rows
\* (all but the first when it carries the revision header) among the revision
\* rows; the body tables are input tables in input order, and the revision
\* rows are the rows of the remaining tables in input order.
Thm_C21_NoContentLost ==
    /\ \A k \in CatVisited :
          tables[k].rows # <<>> =>
              \/ (meta_src = <<k>> /\ metadata_table = <<tables[k]>>)
              \/ (\E j \in 1..Len(body_src) : body_src[j] = k /\ body_tables[j] = tables[k])
              \/ RevRowsFrom(k) = (IF HasRevisionHeaderSet(k) THEN Tail(tables[k].rows)
                                   ELSE tables[k].rows)
    /\ \A a, b \in 1..Len(body_src) : a < b => body_src[a] < body_src[b]
    /\ \A a, b \in 1..Len(rev_src) : a < b => rev_src[a] <= rev_src[b]
    /\ body_tables = TablesAt(Range(body_src))
    /\ revision_rows = RowsOutside(Range(meta_src) \cup Range(body_src))

\* all three outputs are filled, and a table that holds a metadata keyword and
\* came after the metadata table has its rows among the revision rows
Wit_C21_SecondKeywordTableKept ==
    /\ cat_pc = "done"
    /\ meta_src # <<>>
    /\ body_src # <<>>
    /\ \E k \in 1..Len(tables) :
        /\ k \notin Range(meta_src)
        /\ HasMetadataKeyword(tables[k].rows)
        /\ RevRowsFrom(k) # <<>>

(***************************************************************************)
(* Inputs of the section builder: free text of up to MaxLines lines         *)
(***************************************************************************)
MaxLines == 3

LineChoices ==
    { <<"1", " ", "A", "b", "c">>,
      <<"1", ".", "1", " ", "A", "b", "c">>,
      <<"1">>,
      <<"A", "b", "c">>,
      <<"1", " ", " ", "a", "n", "d", " ", "2">>,
      <<"1", " ", "a", "n", "d", " ", "2">>,
      <<"P", "a", "g", "e", " ", "1", "2", " ", "o", "f", " ", "4", "0">>,
      <<"5", " ", " ", " ", " ">>,
      <<"a", "b">>,
      <<>> }

\* the table classifier is not running
CatIdle ==
    /\ cat_pc = "idle"
    /\ tables = <<>>
    /\ cat_i = 1
    /\ metadata_table = <<>>
    /\ revision_rows = <<>>
    /\ body_tables = <<>>
    /\ is_revision_section = FALSE
    /\ meta_src = <<>>
    /\ rev_src = <<>>
    /\ body_src = <<>>

SecInit ==
    /\ CatIdle
    /\ ExtIdle
    /\ NewIdle
    /\ sec_pc = "parse"
    /\ \E lines \in SeqsUpTo(LineChoices, MaxLines) : raw_text = Join(<<"\n">>, lines)
    /\ headings = <<>>
    /\ content_map = <<>>
    /\ sec_i = 1
    /\ current_section = <<>>
    /\ structured_body = <<>>

SecNext ==
    \/ SecParse
    \/ SecOpenSection
    \/ SecAddSubSection
    \/ SecDropSubSection
    \/ SecClose

SpecSections == SecInit /\ [][SecNext]_vars

(***************************************************************************)
(* Properties of the section builder                                       *)
(***************************************************************************)
\* the headings the loop has visited so far
SecVisited == IF sec_pc \in {"loop", "done"} THEN sec_i - 1 ELSE 0

\* the sections built so far, the open one last
SecTree == IF sec_pc = "done" THEN structured_body ELSE structured_body \o current_section

\* the numeral of a heading (its characters before the first whitespace) holds a dot
NumeralHasDot(h) ==
    \E k \in 1..Len(h) : h[k] = "." /\ \A j \in 1..k : ~IsSpace(h[j])

\* the first visited heading whose numeral has no dot (0: none)
FirstSectionLevel ==
    LET S == {i \in 1..SecVisited : ~NumeralHasDot(headings[i].heading)}
    IN  IF S = {} THEN 0 ELSE CHOOSE i \in S : \A j \in S : i <= j

\* the visited headings from the first Section-level one on
SecEmitted ==
    IF FirstSectionLevel = 0 THEN <<>>
    ELSE [k \in 1..(SecVisited - FirstSectionLevel + 1) |-> FirstSectionLevel + k - 1]

\* the first visited heading that line 96 takes as a Section (0: none)
FirstMainSection ==
    LET S == {i \in 1..SecVisited : IsMainSection(headings[i].heading)}
    IN  IF S = {} THEN 0 ELSE CHOOSE i \in S : \A j \in S : i <= j

\* the visited headings from that one on
SecFiled ==
    IF FirstMainSection = 0 THEN <<>>
    ELSE [k \in 1..(SecVisited - FirstMainSection + 1) |-> FirstMainSection + k - 1]

RECURSIVE FlattenTree(_)
\* the tree read in order: each section, then its sub-sections
FlattenTree(tree) ==
    IF tree = <<>> THEN <<>>
    ELSE <<[level |-> "Section", name |-> tree[1].Section, content |-> tree[1].Content]>>
         \o [k \in 1..Len(tree[1].Sub_sections) |->
                [level |-> "SubSection",
                 name |-> tree[1].Sub_sections[k].Sub_section,
                 content |-> tree[1].Sub_sections[k].Content]]
         \o FlattenTree(Tail(tree))

\* C7: the tree read in order is the list of visited headings from the first
\* Section-level heading on, each heading with a dotted numeral as a SubSection
\* and each other heading as a Section: every SubSection heading is under the
\* nearest Section-level heading before it, in source order, and one met before
\* any Section-level heading is nowhere in the tree.
Orig_C7_SectionTree ==
    LET flat == FlattenTree(SecTree)
    IN  /\ Len(flat) = Len(SecEmitted)
        /\ \A k \in 1..Len(flat) :
              /\ flat[k].name = headings[SecEmitted[k]].heading
              /\ flat[k].level = IF NumeralHasDot(headings[SecEmitted[k]].heading)
                                 THEN "SubSection" ELSE "Section"

\* what holds of C7: the same tree, with the Section-level headings being those
\* that start with digits and one whitespace character after the trimming of
\* line 39; a bare numeral, left of a line of a numeral and blanks, is not one
SectionTreeByMainTest ==
    LET flat == FlattenTree(SecTree)
    IN  /\ Len(flat) = Len(SecFiled)
        /\ \A k \in 1..Len(flat) :
              /\ flat[k].name = headings[SecFiled[k]].heading
              /\ flat[k].level = IF IsMainSection(headings[SecFiled[k]].heading)
                                 THEN "Section" ELSE "SubSection"

\* a heading without a dot in its numeral that line 96 does not take as a Section
BareNumeralHeading ==
    \E i \in 1..Len(headings) :
        ~NumeralHasDot(headings[i].heading) /\ ~IsMainSection(headings[i].heading)

\* C8: the Content emitted with every heading occurrence is the trimmed source
\* text between the end of its own match and the start of the next heading's
\* match (the end of the text for the last heading).
Orig_C8_ContentPerOccurrence ==
    LET flat == FlattenTree(SecTree)
    IN  \A k \in 1..Len(flat) :
            k <= Len(SecFiled) =>
                LET i == SecFiled[k]
                    content_end == IF i < Len(headings) THEN headings[i + 1].start
                                   ELSE Len(raw_text)
                IN  flat[k].content = Strip(Slice(raw_text, headings[i].end, content_end))

\* the source line that starts at offset p
LineAt(s, p) ==
    LET nl == {e \in p..(Len(s) - 1) : s[e + 1] = "\n"}
    IN  Slice(s, p, IF nl = {} THEN Len(s) ELSE CHOOSE e \in nl : \A f \in nl : e <= f)

\* s without its leading whitespace
LStrip(s) ==
    LET keep == {k \in 1..Len(s) : ~IsSpace(s[k])}
    IN  IF keep = {} THEN <<>>
        ELSE Slice(s, (CHOOSE k \in keep : \A j \in keep : k <= j) - 1, Len(s))

\* a line that starts with a dotted numeral followed by at least 3 more
\* characters, and whose remainder after the numeral has none of the exclusion shapes
HeadingShapedLine(line) ==
    LET num == Match(rxNumeral, line, 0, TRUE)
    IN  /\ num # <<>>
        /\ Len(line) - Head(num) >= 3
        /\ Match(HEADING_EXCLUSIONS, LStrip(Slice(line, Head(num), Len(line))), 0, TRUE) = <<>>

\* C9: every heading found starts a line that is heading shaped.
Orig_C9_HeadingOnlyIfShaped ==
    \A i \in 1..Len(headings) : HeadingShapedLine(LineAt(raw_text, headings[i].start))

\* C10: the span of every heading found holds no newline, and the heading is
\* part of the one line that starts at its offset.
Orig_C10_HeadingWithinLine ==
    \A i \in 1..Len(headings) :
        /\ \A k \in (headings[i].start + 1)..headings[i].end : raw_text[k] # "\n"
        /\ headings[i].end <= headings[i].start + Len(LineAt(raw_text, headings[i].start))

\* C11: the headings found have strictly increasing offsets that do not overlap:
\* each heading starts before it ends, ends no later than the next one starts,
\* and all offsets lie within the text.
Thm_C11_HeadingOffsets ==
    \A i \in 1..Len(headings) :
        /\ 0 <= headings[i].start
        /\ headings[i].start < headings[i].end
        /\ headings[i].end <= Len(raw_text)
        /\ i < Len(headings) => headings[i].end <= headings[i + 1].start

\* two headings were found, the first of them running over a line break
Wit_C11_TwoHeadings ==
    /\ sec_pc = "loop"
    /\ Len(headings) = 2
    /\ \E k \in (headings[1].start + 1)..headings[1].end : raw_text[k] = "\n"

(***************************************************************************)
(* Inputs of extract_text_and_tables: up to MaxBlocks LINE and TABLE       *)
(* blocks, followed by the CELL, WORD and SELECTION_ELEMENT blocks that    *)
(* the tables refer to                                                     *)
(***************************************************************************)
MaxBlocks == 3

Box(l, t, w, h) == [Left |-> l, Top |-> t, Width |-> w, Height |-> h]

Block(id, type, text, page, box, rels, r, c, sel) ==
    [Id |-> id, BlockType |-> type, Text |-> text, Page |-> page, Box |-> box,
     Relationships |-> rels, RowIndex |-> r, ColumnIndex |-> c, SelectionStatus |-> sel]

Child(ids) == [Type |-> "CHILD", Ids |-> ids]

WordBlock(id, text) == Block(id, "WORD", text, <<1>>, <<>>, <<>>, 0, 0, "")
SelectionBlock(id, sel) == Block(id, "SELECTION_ELEMENT", <<>>, <<1>>, <<>>, <<>>, 0, 0, sel)
CellBlock(id, r, c, rels) == Block(id, "CELL", <<>>, <<1>>, <<>>, rels, r, c, "")
LineBlock(text, page, box) == Block(0, "LINE", text, page, box, <<>>, 0, 0, "")
TableBlock(page, box, ids) == Block(0, "TABLE", <<>>, page, box, <<Child(ids)>>, 0, 0, "")

\* the blocks below the tables
PoolBlocks ==
    << CellBlock(11, 1, 1, <<Child(<<91, 93>>)>>),
       CellBlock(12, 1, 2, <<Child(<<92>>)>>),
       CellBlock(15, 1, 2, <<>>),
       CellBlock(21, 2, 1, <<Child(<<94>>)>>),
       CellBlock(22, 2, 2, <<Child(<<92>>)>>),
       CellBlock(23, 2, 3, <<[Type |-> "MERGED_CELL", Ids |-> <<92>>], Child(<<91, 92>>)>>),
       WordBlock(91, <<"a">>),
       WordBlock(92, <<"b">>),
       SelectionBlock(93, "SELECTED"),
       SelectionBlock(94, "NOT_SELECTED") >>

TableRegion == Box(0, 0, 4, 4)

TopChoices ==
    { \* a table with a short second row
      TableBlock(<<1>>, <<TableRegion>>, <<11, 12, 21>>),
      \* a table without geometry: a gap in row 2, an unknown id, a child that
      \* is no cell, a position assembled twice
      TableBlock(<<2>>, <<>>, <<23, 11, 99, 91, 12, 15>>),
      \* a full 2 x 2 table, its cells out of order
      TableBlock(<<1>>, <<TableRegion>>, <<22, 11, 21, 12>>),
      \* a line with a column gap, its centre (2, 2) inside the table region
      LineBlock(<<"a", " ", " ", "b">>, <<1>>, <<Box(1, 1, 2, 2)>>),
      \* the same outside the table region
      LineBlock(<<"a", " ", " ", "b">>, <<1>>, <<Box(5, 5, 2, 2)>>),
      \* a line without a column gap, outside
      LineBlock(<<"a">>, <<1>>, <<Box(5, 6, 2, 2)>>),
      \* a line without geometry on page 2
      LineBlock(<<"b", " ", " ", " ", "a", " ">>, <<2>>, <<>>),
      \* a line without a page, its centre (4, 1) on the edge of the table region
      LineBlock(<<"b">>, <<>>, <<Box(3, 0, 2, 2)>>) }

\* the top-level blocks get the Ids 1, 2, ...
WithIds(tops) == [k \in 1..Len(tops) |-> [tops[k] EXCEPT !.Id = k]]

ExtInit ==
    /\ CatIdle
    /\ SecIdle
    /\ NewIdle
    /\ ext_pc = "blocks"
    /\ \E tops \in SeqsUpTo(TopChoices, MaxBlocks) : blocks = WithIds(tops) \o PoolBlocks
    /\ ext_i = 1
    /\ raw_text_lines = <<>>
    /\ ext_tables = <<>>
    /\ table_geometries = <<>>
    /\ page_line_blocks = <<>>
    /\ fb_p = 1
    /\ fb_l = 1
    /\ buffer = <<>>
    /\ ext_raw_text = <<>>
    /\ tbl_src = <<>>

ExtNext ==
    \/ ExtLine
    \/ ExtTable
    \/ ExtOther
    \/ ExtStartPages
    \/ FbInside
    \/ FbBuffer
    \/ FbBreak
    \/ FbPageEnd
    \/ ExtReturn

SpecExtract == ExtInit /\ [][ExtNext]_vars

(***************************************************************************)
(* Properties of extract_text_and_tables                                   *)
(***************************************************************************)
\* the bounding boxes of all TABLE blocks of the input
AllTableBoxes ==
    Concat([k \in 1..Len(blocks) |->
               IF blocks[k].BlockType = "TABLE" THEN blocks[k].Box ELSE <<>>])

\* the texts of the LINE blocks whose centre is in no table's bounding box, in source order
FreeLineTexts ==
    Concat([k \in 1..Len(blocks) |->
               IF /\ blocks[k].BlockType = "LINE"
                  /\ ~is_block_inside_tables(blocks[k], AllTableBoxes)
               THEN <<blocks[k].Text>> ELSE <<>>])

\* C1: the returned free text is the texts of the LINE blocks that are inside
\* no table, joined by newline in source order.
Orig_C1_FreeTextOutsideTables ==
    ext_pc = "done" => ext_raw_text = Join(<<"\n">>, FreeLineTexts)

\* C3: every grid assembled from a TABLE block is dense: each row has as many
\* columns as the largest column index among the cells of the table, and a
\* position without a cell holds the empty string.
Orig_C3_DenseGrid ==
    \A k \in 1..Len(ext_tables) :
        tbl_src[k] # 0 =>
            LET cells == CellsOf(blocks, ChildIds(blocks[tbl_src[k]]))
                width == CHOOSE w \in {cells[j].ColumnIndex : j \in 1..Len(cells)} \cup {0} :
                             \A j \in 1..Len(cells) : cells[j].ColumnIndex <= w
                rws == Sorted({cells[j].RowIndex : j \in 1..Len(cells)})
                grid == ext_tables[k].rows
            IN  /\ Len(grid) = Len(rws)
                /\ \A i \in 1..Len(grid) :
                      /\ Len(grid[i]) = width
                      /\ \A c \in 1..width :
                            (~\E j \in 1..Len(cells) :
                                  cells[j].RowIndex = rws[i] /\ cells[j].ColumnIndex = c)
                                => (c <= Len(grid[i]) /\ grid[i][c] = <<>>)

(***************************************************************************)
(* SOP_Structure_Formation, lines 82-139: the whole function.  Line 86     *)
(* runs _categorize_tables, line 87 _parse_sections, lines 92-106 the       *)
(* section loop, lines 108-139 assemble the document model.  A dict is a   *)
(* function; the keys "Sub-sections" and "Table #" are the record fields   *)
(* Sub_sections and Table_no.                                              *)
(***************************************************************************)
sDocumentInformation == <<"D", "o", "c", "u", "m", "e", "n", "t", " ", "I", "n", "f", "o", "r", "m", "a", "t", "i", "o", "n">>
sTableOfContents == <<"T", "a", "b", "l", "e", " ", "o", "f", " ", "C", "o", "n", "t", "e", "n", "t", "s">>
sRevisionHistory == <<"R", "e", "v", "i", "s", "i", "o", "n", " ", "H", "i", "s", "t", "o", "r", "y">>
sExtractedTables == <<"E", "x", "t", "r", "a", "c", "t", "e", "d", " ", "T", "a", "b", "l", "e", "s">>

\* line 113: {row[0]: row[1] for row in rows if len(row) == 2}; a later row
\* with the same key overwrites the entry
MetadataDict(rows) ==
    LET two == {k \in 1..Len(rows) : Len(rows[k]) = 2}
    IN  [key \in {rows[k][1] : k \in two} |->
            rows[CHOOSE k \in two : /\ rows[k][1] = key
                                    /\ \A j \in two : rows[j][1] = key => j <= k][2]]

\* mutant: zip_longest, a short row is padded with empty cells
M_ZipRevision_Padded(row) ==
    [name \in Range(REVISION_HEADERS) |->
        LET j == CHOOSE i \in 1..Len(REVISION_HEADERS) : REVISION_HEADERS[i] = name
        IN  IF j <= Len(row) THEN row[j] ELSE <<>>]

\* line 127: dict(zip(REVISION_HEADERS, row)), zip stops at the shorter of the two
ZipRevision(row) ==
    LET n == IF Len(row) < Len(REVISION_HEADERS) THEN Len(row) ELSE Len(REVISION_HEADERS)
    IN  [name \in {REVISION_HEADERS[j] : j \in 1..n} |->
            row[CHOOSE j \in 1..n : REVISION_HEADERS[j] = name]]

\* lines 110-114
DocumentInformation(meta) ==
    IF meta # <<>>
    THEN <<[Section |-> sDocumentInformation, Metadata |-> MetadataDict(meta[1].rows)]>>
    ELSE <<>>

\* lines 116-120
TableOfContents(hs) ==
    IF hs # <<>>
    THEN <<[Section |-> sTableOfContents, Content |-> [i \in 1..Len(hs) |-> hs[i].heading]]>>
    ELSE <<>>

\* lines 124-128
RevisionHistory(revision_table_data) ==
    IF revision_table_data # <<>>
    THEN <<[Section |-> sRevisionHistory,
            Table |-> [k \in 1..Len(revision_table_data) |->
                          ZipRevision(revision_table_data[k])]]>>
    ELSE <<>>

\* lines 130-137
ExtractedTables(remaining_tables) ==
    IF remaining_tables # <<>>
    THEN <<[Section |-> sExtractedTables,
            Tables |-> [i \in 1..Len(remaining_tables) |->
                           [Table_no |-> i,
                            Page |-> remaining_tables[i].page,
                            Source |-> remaining_tables[i].source,
                            Rows |-> remaining_tables[i].rows]]]>>
    ELSE <<>>

\* mutant: the revision history is put before the sections
M_FinalOutput_RevisionFirst(meta, hs, body, revision_table_data, remaining_tables) ==
    DocumentInformation(meta) \o TableOfContents(hs) \o RevisionHistory(revision_table_data)
        \o body \o ExtractedTables(remaining_tables)

\* lines 108-139
FinalOutput(meta, hs, body, revision_table_data, remaining_tables) ==
    DocumentInformation(meta) \o TableOfContents(hs) \o body
        \o RevisionHistory(revision_table_data) \o ExtractedTables(remaining_tables)

\* line 87, once line 86 has returned
DocParse ==
    /\ doc_pc = "run"
    /\ cat_pc = "done"
    /\ SecParse

\* lines 108-139, once the section loop has ended
DocAssemble ==
    /\ doc_pc = "run"
    /\ sec_pc = "done"
    /\ final_output' = FinalOutput(metadata_table, headings, structured_body,
                                   revision_rows, body_tables)
    /\ doc_pc' = "done"
    /\ UNCHANGED <<catVars, secVars, extVars, lateVars>>

(***************************************************************************)
(* Inputs of SOP_Structure_Formation: up to MaxDocTables tables and a text *)
(* of up to MaxDocLines lines                                              *)
(***************************************************************************)
MaxDocTables == 3
MaxDocLines == 2

DocTableChoices ==
    { Table(<<>>),
      Table(<<REVISION_HEADERS, <<s1, sx>>, <<s1, sx, sx, sx, s1>>>>),
      Table(<<<<sx, sx, sx, sx>>>>),
      Table(<<<<sResponsible, sx>>, <<sx, sx, sx>>, <<sResponsible, s1>>>>) }

DocLineChoices ==
    { <<"1", " ", "A", "b", "c">>,
      <<"1", ".", "1", " ", "A", "b", "c">>,
      <<"A", "b", "c">> }

DocInit ==
    /\ ExtIdle
    /\ LateIdle
    /\ doc_pc = "run"
    /\ final_output = <<>>
    /\ cat_pc = "loop"
    /\ tables \in SeqsUpTo(DocTableChoices, MaxDocTables)
    /\ cat_i = 1
    /\ metadata_table = <<>>
    /\ revision_rows = <<>>
    /\ body_tables = <<>>
    /\ is_revision_section = FALSE
    /\ meta_src = <<>>
    /\ rev_src = <<>>
    /\ body_src = <<>>
    /\ sec_pc = "parse"
    /\ \E lines \in SeqsUpTo(DocLineChoices, MaxDocLines) : raw_text = Join(<<"\n">>, lines)
    /\ headings = <<>>
    /\ content_map = <<>>
    /\ sec_i = 1
    /\ current_section = <<>>
    /\ structured_body = <<>>

DocNext ==
    \/ CatSkipEmpty
    \/ CatMetadata
    \/ CatRevisionHeader
    \/ CatRevisionContinuation
    \/ CatBody
    \/ CatReturn
    \/ DocParse
    \/ SecOpenSection
    \/ SecAddSubSection
    \/ SecDropSubSection
    \/ SecClose
    \/ DocAssemble

SpecDocument == DocInit /\ [][DocNext]_vars

(***************************************************************************)
(* Properties of the document model                                        *)
(***************************************************************************)
\* what kind of block of the document model b is, read from its keys
BlockKind(b) ==
    IF "Metadata" \in DOMAIN b THEN "Document Information"
    ELSE IF "Sub_sections" \in DOMAIN b THEN "Section"
    ELSE IF "Table" \in DOMAIN b THEN "Revision History"
    ELSE IF "Tables" \in DOMAIN b THEN "Extracted Tables"
    ELSE "Table of Contents"

\* the kinds of blocks the inputs call for, in the fixed order
ExpectedKinds ==
    (IF meta_src # <<>> THEN <<"Document Information">> ELSE <<>>)
    \o (IF headings # <<>> THEN <<"Table of Contents">> ELSE <<>>)
    \o [k \in 1..Len(structured_body) |-> "Section"]
    \o (IF rev_src # <<>> THEN <<"Revision History">> ELSE <<>>)
    \o (IF body_src # <<>> THEN <<"Extracted Tables">> ELSE <<>>)

\* the name an optional block of the given kind carries
KindName(kind) ==
    CASE kind = "Document Information" -> sDocumentInformation
      [] kind = "Table of Contents" -> sTableOfContents
      [] kind = "Revision History" -> sRevisionHistory
      [] kind = "Extracted Tables" -> sExtractedTables

\* C12: the returned document model lists Document Information, Table of
\* Contents, the sections in detection order, Revision History and Extracted
\* Tables in this order; Document Information is there exactly when a metadata
\* table was taken, Table of Contents exactly when a heading was found,
\* Revision History exactly when a revision row was accumulated, Extracted
\* Tables exactly when a body table remains, each at most once.
Thm_C12_BlockOrder ==
    doc_pc = "done" =>
        /\ Len(final_output) = Len(ExpectedKinds)
        /\ \A k \in 1..Len(final_output) :
              /\ BlockKind(final_output[k]) = ExpectedKinds[k]
              /\ ExpectedKinds[k] # "Section" =>
                    final_output[k].Section = KindName(ExpectedKinds[k])
        /\ LET first == Len(SelectSeq(ExpectedKinds,
                              LAMBDA x : x \in {"Document Information", "Table of Contents"}))
           IN  \A k \in 1..Len(structured_body) :
                   final_output[first + k] = structured_body[k]

\* a document with all four optional blocks and two sections
Wit_C12_AllBlocks ==
    /\ doc_pc = "done"
    /\ Len(final_output) = 6
    /\ Len(structured_body) = 2
    /\ meta_src # <<>> /\ rev_src # <<>> /\ body_src # <<>>

\* the Revision History blocks of the returned document model
RevisionBlocks == SelectSeq(final_output, LAMBDA b : BlockKind(b) = "Revision History")

\* C13: every accumulated revision row gives one Revision History record, in
\* accumulation order, that maps the first min(4, k) of the names Version, Date,
\* Description, Contributor to the first cells of the row of k cells, name j to cell j.
Thm_C13_RevisionRecords ==
    (doc_pc = "done" /\ revision_rows # <<>>) =>
        /\ Len(RevisionBlocks) = 1
        /\ Len(RevisionBlocks[1].Table) = Len(revision_rows)
        /\ \A k \in 1..Len(revision_rows) :
              LET row == revision_rows[k]
                  rec == RevisionBlocks[1].Table[k]
                  n == IF Len(row) < 4 THEN Len(row) ELSE 4
              IN  /\ DOMAIN rec = {REVISION_HEADERS[j] : j \in 1..n}
                  /\ \A j \in 1..n : rec[REVISION_HEADERS[j]] = row[j]

\* revision rows of 2, of 4 and of 5 cells were turned into records
Wit_C13_ShortAndLongRows ==
    /\ doc_pc = "done"
    /\ RevisionBlocks # <<>>
    /\ \A n \in {2, 4, 5} : \E k \in 1..Len(revision_rows) : Len(revision_rows[k]) = n

(***************************************************************************)
(* Inputs for the fallback tables of extract_text_and_tables: up to        *)
(* MaxFbLines LINE blocks, with or without a TABLE block before or after   *)
(* them, and one WORD block                                                *)
(***************************************************************************)
MaxFbLines == 3

FbLineChoices ==
    { \* a line with a column gap, outside the table region
      LineBlock(<<"a", " ", " ", "b">>, <<1>>, <<Box(5, 5, 2, 2)>>),
      \* a line with a column gap, its centre (2, 2) inside the table region
      LineBlock(<<"c", " ", " ", "d">>, <<1>>, <<Box(1, 1, 2, 2)>>),
      \* a line without a column gap, outside
      LineBlock(<<"e", " ", "f">>, <<1>>, <<Box(5, 6, 2, 2)>>),
      \* a line with a column gap on page 2, without geometry
      LineBlock(<<"g", "\t", " ", "h", " ", " ">>, <<2>>, <<>>) }

FbTableChoices == {<<>>, <<TableBlock(<<1>>, <<TableRegion>>, <<>>)>>}

FbInit ==
    /\ CatIdle
    /\ SecIdle
    /\ NewIdle
    /\ ext_pc = "blocks"
    /\ \E before \in FbTableChoices, after \in FbTableChoices,
          lines \in SeqsUpTo(FbLineChoices, MaxFbLines) :
            /\ before = <<>> \/ after = <<>>
            /\ blocks = WithIds(before \o lines \o after) \o <<WordBlock(91, <<"a">>)>>
    /\ ext_i = 1
    /\ raw_text_lines = <<>>
    /\ ext_tables = <<>>
    /\ table_geometries = <<>>
    /\ page_line_blocks = <<>>
    /\ fb_p = 1
    /\ fb_l = 1
    /\ buffer = <<>>
    /\ ext_raw_text = <<>>
    /\ tbl_src = <<>>

SpecFallback == FbInit /\ [][ExtNext]_vars

(***************************************************************************)
(* Properties of the fallback tables                                       *)
(***************************************************************************)
\* the fallback tables emitted for page p, in order
FallbackTablesOf(p) ==
    LET idx == SelectSeq([k \in 1..Len(ext_tables) |-> k],
                         LAMBDA k : tbl_src[k] = 0 /\ ext_tables[k].page = p)
    IN  [n \in 1..Len(idx) |-> ext_tables[idx[n]]]

\* the LINE blocks of page p in source order
PageLines(p) == SelectSeq(blocks, LAMBDA b : b.BlockType = "LINE" /\ PageOf(b) = p)

LineOutside(b) == ~is_block_inside_tables(b, AllTableBoxes)

\* the rows expected from the maximal runs of 2 or more consecutive qualifying
\* lines of L; q[k] tells whether L[k] qualifies
RunRows(L, q) ==
    LET starts == Sorted({i \in 1..Len(L) : q[i] /\ (i = 1 \/ ~q[i - 1])})
        EndOf(i) == CHOOSE j \in i..Len(L) :
                        /\ \A k \in i..j : q[k]
                        /\ (j = Len(L) \/ ~q[j + 1])
        runs == [n \in 1..Len(starts) |->
                    [k \in 1..(EndOf(starts[n]) - starts[n] + 1) |->
                        SplitGaps(Strip(L[starts[n] + k - 1].Text))]]
    IN  SelectSeq(runs, LAMBDA r : Len(r) >= 2)

AllPages == {PageOf(blocks[k]) : k \in 1..Len(blocks)}

\* C14 as stated: a run is made of consecutive lines of the page, each of them
\* outside every table and with a column gap; any other line of the page,
\* one inside a table included, closes the run.
Orig_C14_RunsOfPageLines ==
    ext_pc = "done" =>
        \A p \in AllPages :
            LET L == PageLines(p)
                q == [k \in 1..Len(L) |-> LineOutside(L[k]) /\ HasColumnGap(L[k].Text)]
                F == FallbackTablesOf(p)
            IN  /\ Len(F) = Len(RunRows(L, q))
                /\ \A n \in 1..Len(F) : F[n].rows = RunRows(L, q)[n]

\* C14, amended: the lines inside a table are left out first; a run is made of
\* lines with a column gap that are consecutive among the remaining lines of
\* the page, and is closed by a remaining line without a column gap or by the
\* end of the page.  Every fallback table is one such run of 2 or more lines,
\* one row per line, and every such run gives a table.
Thm_C14_RunsOfOutsideLines ==
    ext_pc = "done" =>
        \A p \in AllPages :
            LET L == SelectSeq(PageLines(p), LineOutside)
                q == [k \in 1..Len(L) |-> HasColumnGap(L[k].Text)]
                F == FallbackTablesOf(p)
            IN  /\ Len(F) = Len(RunRows(L, q))
                /\ \A n \in 1..Len(F) :
                      /\ F[n].rows = RunRows(L, q)[n]
                      /\ Len(F[n].rows) >= 2
                      /\ F[n].source = "FALLBACK_REGEX"

\* a fallback table of two rows whose lines have a line inside a table between them
Wit_C14_RunAcrossTableLine ==
    /\ ext_pc = "done"
    /\ Len(PageLines(1)) = 3
    /\ LineOutside(PageLines(1)[1])
    /\ ~LineOutside(PageLines(1)[2])
    /\ LineOutside(PageLines(1)[3])
    /\ Len(FallbackTablesOf(1)) = 1
    /\ Len(FallbackTablesOf(1)[1].rows) = 2

(***************************************************************************)
(* The structured variant of the table assembler, which is not among the   *)
(* source files: modelled from section 4.2 of the specification.  A grid   *)
(* is a list of rows of equal width.  The header labels last learned are   *)
(* process-wide state, so a document may start with labels remembered from *)
(* an earlier one.                                                         *)
(***************************************************************************)
HeaderCellMax == 40

\* "the first row is treated as a header row if every one of its cell values
\* is a string shorter than 40 characters"
IsHeaderRow(row) == \A j \in 1..Len(row) : Len(row[j]) < HeaderCellMax

RECURSIVE DecStr(_)
\* str(n) for n >= 0
DecStr(n) ==
    LET d == <<"0", "1", "2", "3", "4", "5", "6", "7", "8", "9">>[(n % 10) + 1]
    IN  IF n < 10 THEN <<d>> ELSE DecStr(n \div 10) \o <<d>>

\* "Column_N" (N = 1-based column index)
ColumnLabel(n) == <<"C", "o", "l", "u", "m", "n", "_">> \o DecStr(n)

\* the labels learned from a header row: a blank cell gets "Column_N"
HeaderLabels(row) ==
    [j \in 1..Len(row) |-> IF Strip(row[j]) = <<>> THEN ColumnLabel(j) ELSE row[j]]

PositionalLabels(n) == [j \in 1..n |-> ColumnLabel(j)]

RECURSIVE BulletFragments(_)
\* the cell text split on a newline or a bullet character ("*", "-"; the
\* non-ASCII bullets of the pattern do not occur in the inputs)
BulletFragments(text) ==
    LET at == {k \in 1..Len(text) : text[k] \in {"\n", "*", "-"}}
    IN  IF at = {} THEN <<text>>
        ELSE LET k == CHOOSE a \in at : \A b \in at : a <= b
             IN  <<Slice(text, 0, k - 1)>> \o BulletFragments(Slice(text, k, Len(text)))

\* a retained data cell: a list when it holds more than one non-empty
\* fragment, else the scalar string, or null for an empty cell
CellValue(text) ==
    LET parts == BulletFragments(text)
        items == SelectSeq([k \in 1..Len(parts) |-> Strip(parts[k])], LAMBDA f : f # <<>>)
    IN  IF Len(items) > 1 THEN [kind |-> "list", v |-> items]
        ELSE IF Strip(text) = <<>> THEN [kind |-> "null", v |-> <<>>]
        ELSE [kind |-> "scalar", v |-> Strip(text)]

\* a row record: header label -> value, the later of two equal labels wins
RowRecord(headers, row) ==
    [label \in Range(headers) |->
        CellValue(row[CHOOSE j \in 1..Len(headers) :
                          /\ headers[j] = label
                          /\ \A k \in 1..Len(headers) : headers[k] = label => k <= j])]

StructuredTable(headers, rows) ==
    [headers |-> headers, rows |-> [k \in 1..Len(rows) |-> RowRecord(headers, rows[k])]]

StGrid == grids[st_i]
StInLoop == st_pc = "loop" /\ st_i <= Len(grids)
StCarries == last_header # <<>> /\ Len(last_header[1]) = Len(StGrid[1])

\* the first row passes the header test: its labels are learned and remembered
StOwnHeader ==
    /\ StInLoop
    /\ IsHeaderRow(StGrid[1])
    /\ structured_tables' =
          Append(structured_tables, StructuredTable(HeaderLabels(StGrid[1]), Tail(StGrid)))
    /\ last_header' = <<HeaderLabels(StGrid[1])>>
    /\ st_mode' = Append(st_mode, "own")
    /\ st_i' = st_i + 1
    /\ UNCHANGED <<st_pc, grids>>
    /\ UNCHANGED notSt

\* mutant: the continuation table loses its first row as if it were a header
M_StCarryOver_ConsumesRow ==
    /\ st_pc = "loop" /\ st_i <= Len(grids)
    /\ ~IsHeaderRow(grids[st_i][1])
    /\ last_header # <<>> /\ Len(last_header[1]) = Len(grids[st_i][1])
    /\ structured_tables' =
          Append(structured_tables, StructuredTable(last_header[1], Tail(grids[st_i])))
    /\ st_mode' = Append(st_mode, "carried")
    /\ st_i' = st_i + 1
    /\ UNCHANGED <<st_pc, grids, last_header>>
    /\ UNCHANGED notSt

\* the first row fails the header test and the remembered labels have the same
\* column count: they are reused and no row is consumed
StCarryOver ==
    /\ StInLoop
    /\ ~IsHeaderRow(StGrid[1])
    /\ StCarries
    /\ structured_tables' = Append(structured_tables, StructuredTable(last_header[1], StGrid))
    /\ st_mode' = Append(st_mode, "carried")
    /\ st_i' = st_i + 1
    /\ UNCHANGED <<st_pc, grids, last_header>>
    /\ UNCHANGED notSt

\* otherwise positional labels are synthesized and the first row is dropped
StPositional ==
    /\ StInLoop
    /\ ~IsHeaderRow(StGrid[1])
    /\ ~StCarries
    /\ structured_tables' =
          Append(structured_tables,
                 StructuredTable(PositionalLabels(Len(StGrid[1])), Tail(StGrid)))
    /\ st_mode' = Append(st_mode, "positional")
    /\ st_i' = st_i + 1
    /\ UNCHANGED <<st_pc, grids, last_header>>
    /\ UNCHANGED notSt

StReturn ==
    /\ st_pc = "loop"
    /\ st_i > Len(grids)
    /\ st_pc' = "done"
    /\ UNCHANGED <<grids, st_i, last_header, structured_tables, st_mode>>
    /\ UNCHANGED notSt

(***************************************************************************)
(* Inputs of the structured variant: up to MaxGrids grids                  *)
(***************************************************************************)
MaxGrids == 3

LongCell == [k \in 1..HeaderCellMax |-> "x"]

GridChoices ==
    { <<<<<<"A">>, <<"B">>>>, <<<<"x">>, <<"y">>>>>>,
      <<<<LongCell, <<"x">>>>, <<<<"x">>, <<"y", "-", "z">>>>>>,
      <<<<LongCell, <<"x">>, <<"y">>>>>>,
      <<<<<<"A">>, <<" ">>>>, <<<<"x">>, <<>>>>>> }

StInit ==
    /\ CatIdle /\ SecIdle /\ ExtIdle /\ DocIdle
    /\ CaIdle /\ InIdle /\ UrlIdle /\ HIdle
    /\ st_pc = "loop"
    /\ grids \in SeqsUpTo(GridChoices, MaxGrids)
    /\ st_i = 1
    /\ last_header \in {<<>>, <<<<<<"P">>, <<"Q">>>>>>}
    /\ structured_tables = <<>>
    /\ st_mode = <<>>

StNext ==
    \/ StOwnHeader
    \/ StCarryOver
    \/ StPositional
    \/ StReturn

SpecStructured == StInit /\ [][StNext]_vars

(***************************************************************************)
(* Properties of the structured variant                                    *)
(***************************************************************************)
\* C15: header carry-over.  When a table whose first row is a valid header row
\* of width N is followed by a table of width N whose first row is not header
\* shaped, the structured form of the second table has the header labels of
\* the first, and keeps each of its own rows, the first included, as a record.
Thm_C15_HeaderCarryOver ==
    \A i \in 2..Len(structured_tables) :
        (/\ IsHeaderRow(grids[i - 1][1])
         /\ ~IsHeaderRow(grids[i][1])
         /\ Len(grids[i][1]) = Len(grids[i - 1][1]))
        => /\ structured_tables[i].headers = structured_tables[i - 1].headers
           /\ \A j \in 1..Len(grids[i - 1][1]) :
                 Strip(grids[i - 1][1][j]) # <<>> =>
                     structured_tables[i].headers[j] = grids[i - 1][1][j]
           /\ Len(structured_tables[i].rows) = Len(grids[i])
           /\ \A j \in 1..Len(grids[i][1]) :
                 structured_tables[i].rows[1][structured_tables[i].headers[j]].v =
                     Strip(grids[i][1][j])

\* a table with its own header was followed by a continuation of the same width
Wit_C15_Continuation ==
    /\ st_pc = "done"
    /\ Len(st_mode) >= 2
    /\ st_mode[1] = "own"
    /\ st_mode[2] = "carried"
    /\ Len(structured_tables[2].rows) = 2

(***************************************************************************)
(* src/Claude_Analysis_Lambda.py, lambda_handler (lines 104-149) and       *)
(* format_claude_output (lines 180-213).  The inference service answers a  *)
(* call with a completion or raises; a throttled call raises               *)
(* ThrottlingException.  The prompt of build_prompt is not kept.           *)
(***************************************************************************)
\* lines 8-102
CONTROL_ATTRIBUTES == <<
    [ attribute |-> Chars("Risk and Objective Alignment"),
      required |-> Chars("Do the activities and the parameters of the control align with the objective and risk it is intending to mitigate?"),
      considerations |-> <<
             Chars("Will the control mitigate the risk if performing as intended?"),
             Chars("Is the control frequency and control nature (e.g. Preventive or Detective) in line with the risk that it is intended to mitigate?"),
             Chars("Does the control cover all intended products and services?") >> ],
    [ attribute |-> Chars("Process Alignment"),
      required |-> Chars("Is the control being executed at the proper frequency and point in the process to ensure timely detection / prevention of its associated risks?"),
      considerations |-> <<
             Chars("Is the control being performed less frequently when compared to the process/activity?"),
             Chars("Is the control occurring within the process at the right time to achieve the objective?") >> ],
    [ attribute |-> Chars("Standards Alignment"),
      required |-> Chars("Does the control align to any applicable control testing standards, regulatory requirements and relevant policies/procedures?"),
      considerations |-> <<
             Chars("If applicable, is the control aligned to outdated polices/procedures?"),
             Chars("Has there been new regulatory guidance that would be applicable to the control?") >> ],
    [ attribute |-> Chars("Documentation"),
      required |-> Chars("Are the 5 W's ('Who', 'What', 'When', 'Where', 'Why') clearly articulated in the control descriptions or other dedicated fields?"),
      considerations |-> <<
             Chars("Who - who performs the control"),
             Chars("What - what control activity is performed that helps achieve the objective"),
             Chars("When - when the control is performed"),
             Chars("Where - where a control is positioned in the business process. Where it is performed, where it is evidenced"),
             Chars("Why - why the control is performed") >> ],
    [ attribute |-> Chars("Data Integrity"),
      required |-> Chars("Is the data, information and/or systems in which the control is dependent upon free of any known issues? Does the control owner/performer have the ability to provide the assurance the data utilized is complete and accurate for conducting the control?"),
      considerations |-> <<
             Chars("Consider whether the data or information elements used are appropriate to achieve the control objective."),
             Chars("Is the control leveraging the right data/information source to perform the control?"),
             Chars("Are the appropriate data points or pieces of information from the source system being used to perform the control?"),
             Chars("Can the data be relied upon to perform the control?") >> ],
    [ attribute |-> Chars("Roles and Responsibilities"),
      required |-> Chars("Do the control owners/performers have defined roles and responsibilities, including independence or segregation of duties? Is the control performed, reviewed, and monitored by sufficient qualified and authorized individuals?"),
      considerations |-> <<
             Chars("Consider whether all roles and responsibilities around the control activity are clearly defined."),
             Chars("Does control performer know what is expected of them?"),
             Chars("Are the various accountabilities for the control clearly defined? (i.e. who is responsible for each part of the control activity)"),
             Chars("Is the control operator sufficiently independent from the process owner in the process requiring maker/checker roles?") >> ],
    [ attribute |-> Chars("Reporting"),
      required |-> Chars("Does the activity have an established reporting process in place for results and does it include notifying the appropriate delivery stakeholders timely?"),
      considerations |-> <<
             Chars("For Controls requiring communication of the outcome of the control activity to fully mitigate the risk, is the control reporting timely to meet the desired objective?"),
             Chars("Is the communication being delivered to the correct stakeholders?") >> ],
    [ attribute |-> Chars("Escalation"),
      required |-> Chars("Does the activity have an established escalation process in place to address any out of tolerance / compliance conditions and does it include notifying the appropriate delivery stakeholders timely?"),
      considerations |-> <<
             Chars("Does the control activity have a process in place to escalate items that are deemed to not be in tolerance or that are to be actioned by the business for failure?"),
             Chars("Are items tracked and monitored until they are appropriately addressed or actioned?"),
             Chars("Consider if the escalation process includes notifying the right stakeholders."),
             Chars("Consider if the escalation is being conducted in a timely manner") >> ],
    [ attribute |-> Chars("Sustainability"),
      required |-> Chars("Is the control activity built in a manner that is clear & sufficient to allow repeatable execution of the control on an ongoing basis?"),
      considerations |-> <<
             Chars("Relative to the complexity of the control, are pertinent details of the control activity documented such that current employees can leverage the documentation as a reference to perform the control?"),
             Chars("Does the documentation include enough detail for the control performer or is it written at a very high level and is therefore not likely to be useful as a reference?"),
             Chars("Consider whether the control can continue to operate in the event of turnover or a change in processes?"),
             Chars("Consider whether the control can be repeatably executed in the case that volume increases"),
             Chars("Are there defined measures of sustainability and effectiveness?") >> ],
    [ attribute |-> Chars("Verifiability"),
      required |-> Chars("Is the activity designed in order to produce & retain appropriate documentation/evidence in order to validate that the control was performed and therefore could be re-performed, if necessary?"),
      considerations |-> <<
             Chars("Consider whether a third party can verify that the control was performed"),
             Chars("Consider whether appropriate documentation or records are retained. For example, could a third party leverage the data retained and reperform the control?") >> ] >>

\* the completions the service answers with
Completions ==
    { Chars(" ok\n"),
      <<>>,
      Chars("Required Question:\nIs it?\nYes, weekly.\n\nEvidence:\nSection 2\n\nSummary Comment:\nFine.") }

\* the exceptions invoke_model raises
InvokeErrors == {"ThrottlingException", "ModelTimeoutException"}

\* lit is in s at offset p
OccursAt(s, lit, p) == p + Len(lit) <= Len(s) /\ Slice(s, p, p + Len(lit)) = lit

\* how many characters from offset q on are whitespace (\s*, taken greedily)
SpaceRun(s, q) ==
    LET ok == {n \in 0..(Len(s) - q) : \A k \in 1..n : IsSpace(s[q + k])}
    IN  CHOOSE n \in ok : \A m \in ok : m <= n

\* the positions after offset q that hold a line feed
LineFeeds(s, q) == {k \in (q + 1)..Len(s) : s[k] = "\n"}

Least(S) == CHOOSE k \in S : \A j \in S : k <= j
Greatest(S) == CHOOSE k \in S : \A j \in S : j <= k

\* line 185: r"Required Question:\s*(.*?)\n+(.*?)\n" with re.DOTALL can match
\* with its \s* ending at offset q: two line feeds follow
RequiredTail(s, q) == \E k \in LineFeeds(s, q) : LineFeeds(s, k) # {}

\* group(2) of that match: \s* takes the longest run that leaves two line
\* feeds, the first (.*?) runs to the next line feed, \n+ takes the longest run
\* that leaves one more, the second (.*?) runs to it
RequiredGroup(s, e) ==
    LET a == Greatest({n \in 0..SpaceRun(s, e) : RequiredTail(s, e + n)})
        n1 == Least(LineFeeds(s, e + a))
        r == Greatest({n \in 1..(Len(s) - n1 + 1) :
                          /\ \A k \in n1..(n1 + n - 1) : s[k] = "\n"
                          /\ LineFeeds(s, n1 + n - 1) # {}})
        m == Least(LineFeeds(s, n1 + r - 1))
    IN  Slice(s, n1 + r - 1, m - 1)

\* lines 185-186: required_answer
RequiredAnswer(s) ==
    LET lit == Chars("Required Question:")
        at == {p \in 0..Len(s) : OccursAt(s, lit, p) /\ RequiredTail(s, p + Len(lit))}
    IN  IF at = {} THEN <<>> ELSE Strip(RequiredGroup(s, Least(at) + Len(lit)))

\* (?:\n|stop|\Z) at offset t
StopAt(s, stop, t) ==
    \/ (t < Len(s) /\ s[t + 1] = "\n")
    \/ OccursAt(s, stop, t)
    \/ t = Len(s)

\* the lengths b with which \n(.*?)\n(?:\n|stop|\Z) matches from offset q
AnswerLengths(s, stop, q) ==
    IF q >= Len(s) \/ s[q + 1] # "\n" THEN {}
    ELSE {b \in 0..(Len(s) - q - 2) : s[q + 2 + b] = "\n" /\ StopAt(s, stop, q + 2 + b)}

\* the ways to match \s*[:\-]?\s* from offset e so that the rest matches: the
\* lengths of the first run, of the optional character and of the second run
AnswerLeads(s, stop, e) ==
    {t \in (0..SpaceRun(s, e)) \X {0, 1} \X (0..(Len(s) - e)) :
        /\ t[2] = 1 => (e + t[1] < Len(s) /\ s[e + t[1] + 1] \in {":", "-"})
        /\ t[3] <= SpaceRun(s, e + t[1] + t[2])
        /\ AnswerLengths(s, stop, e + t[1] + t[2] + t[3]) # {}}

\* the lead the matcher finds first: each \s* as long as can be, the optional
\* character taken when it can be
FirstLead(T) ==
    CHOOSE t \in T : \A u \in T :
        \/ t[1] > u[1]
        \/ (t[1] = u[1] /\ t[2] > u[2])
        \/ (t[1] = u[1] /\ t[2] = u[2] /\ t[3] >= u[3])

\* lines 190-193 and 200-201: group(1).strip() of the first match of
\* lit\s*[:\-]?\s*\n(.*?)\n(?:\n|stop|\Z) with re.DOTALL, "" without a match
SectionAnswer(s, lit, stop) ==
    LET at == {p \in 0..Len(s) :
                  OccursAt(s, lit, p) /\ AnswerLeads(s, stop, p + Len(lit)) # {}}
    IN  IF at = {} THEN <<>>
        ELSE LET e == Least(at) + Len(lit)
                 t == FirstLead(AnswerLeads(s, stop, e))
                 q == e + t[1] + t[2] + t[3]
                 b == Least(AnswerLengths(s, stop, q))
             IN  Strip(Slice(s, q + 1, q + 1 + b))

\* lines 204-205: r"Summary Comment\s*[:\-]?\s*\n?(.*)" with re.DOTALL
SummaryComment(s) ==
    LET lit == Chars("Summary Comment")
        at == {p \in 0..Len(s) : OccursAt(s, lit, p)}
    IN  IF at = {} THEN <<>>
        ELSE LET e == Least(at) + Len(lit)
                 a == SpaceRun(s, e)
                 o == IF e + a < Len(s) /\ s[e + a + 1] \in {":", "-"} THEN 1 ELSE 0
                 a2 == SpaceRun(s, e + a + o)
             IN  Strip(Slice(s, e + a + o + a2, Len(s)))

\* lines 180-213
format_claude_output(attr_obj, raw_output) ==
    [ attribute |-> attr_obj.attribute,
      required_question |-> attr_obj.required,
      required_answer |-> RequiredAnswer(raw_output),
      considerations |->
          [k \in 1..Len(attr_obj.considerations) |->
              [ question |-> attr_obj.considerations[k],
                answer |-> SectionAnswer(raw_output, attr_obj.considerations[k],
                                         Chars("Consideration Question")) ]],
      evidence |-> SectionAnswer(raw_output, Chars("Evidence"), Chars("Summary Comment")),
      summary_comment |-> SummaryComment(raw_output) ]

\* lines 106-109; a missing 'extractedText' raises KeyError, caught at line 145
CaStart ==
    /\ ca_pc = "start"
    /\ IF "extractedText" \in DOMAIN ca_event
       THEN /\ ca_pc' = "loop"
            /\ ca_return' = ca_return
       ELSE /\ ca_pc' = "returned"
            /\ ca_return' = <<[status |-> "error", message |-> "'extractedText'"]>>
    /\ UNCHANGED <<ca_event, ca_i, ca_attempts, formatted_results>>
    /\ UNCHANGED notCa

\* lines 111-138: the call is answered, the result is kept, the loop goes on
CaInvokeOk ==
    /\ ca_pc = "loop"
    /\ ca_i <= Len(CONTROL_ATTRIBUTES)
    /\ \E completion \in Completions :
          formatted_results' =
              Append(formatted_results,
                     format_claude_output(CONTROL_ATTRIBUTES[ca_i], Strip(completion)))
    /\ ca_attempts' = Append(ca_attempts, [calls |-> 1, outcome |-> "ok"])
    /\ ca_i' = ca_i + 1
    /\ UNCHANGED <<ca_pc, ca_event, ca_return>>
    /\ UNCHANGED notCa

\* line 124 raises; lines 145-149 catch the exception and return an error record
CaInvokeFails ==
    /\ ca_pc = "loop"
    /\ ca_i <= Len(CONTROL_ATTRIBUTES)
    /\ \E e \in InvokeErrors :
          /\ ca_attempts' = Append(ca_attempts, [calls |-> 1, outcome |-> e])
          /\ ca_return' = <<[status |-> "error", message |-> e]>>
    /\ ca_pc' = "returned"
    /\ UNCHANGED <<ca_event, ca_i, formatted_results>>
    /\ UNCHANGED notCa

\* lines 140-143
CaReturn ==
    /\ ca_pc = "loop"
    /\ ca_i > Len(CONTROL_ATTRIBUTES)
    /\ ca_return' = <<[status |-> "success", results |-> formatted_results]>>
    /\ ca_pc' = "returned"
    /\ UNCHANGED <<ca_event, ca_i, ca_attempts, formatted_results>>
    /\ UNCHANGED notCa

CaInit ==
    /\ CatIdle /\ SecIdle /\ ExtIdle /\ DocIdle
    /\ StIdle /\ InIdle /\ UrlIdle /\ HIdle
    /\ ca_pc = "start"
    /\ ca_event \in {[extractedText |-> <<"1", " ", "A", "b", "c">>],
                     [groupedResponsibilities |-> <<>>]}
    /\ ca_i = 1
    /\ ca_attempts = <<>>
    /\ formatted_results = <<>>
    /\ ca_return = <<>>

CaNext ==
    \/ CaStart
    \/ CaInvokeOk
    \/ CaInvokeFails
    \/ CaReturn

SpecAnalysis == CaInit /\ [][CaNext]_vars

\* C16: once the handler has ended after a throttled call, that call was
\* attempted more than once and the error was raised to the caller.
Orig_C16_ThrottledCallRetried ==
    \A i \in 1..Len(ca_attempts) :
        (ca_attempts[i].outcome = "ThrottlingException" /\ ca_pc \in {"returned", "raised"})
            => (ca_attempts[i].calls > 1 /\ ca_pc = "raised")

(***************************************************************************)
(* src/Extract_Text_Lambda.py: lambda_handler (lines 157-227) with         *)
(* start_textract_job, is_job_complete and get_all_textract_blocks.  The   *)
(* OCR service holds the status of the job, which it moves from            *)
(* IN_PROGRESS to SUCCEEDED, FAILED or PARTIAL_SUCCESS, and the result     *)
(* pages h_doc; each call of a service may raise.  put_object_calls is the *)
(* record of what this one call of the handler has written, not the        *)
(* content of the bucket, which other functions write to as well.          *)
(***************************************************************************)
\* how many of the statuses read the history keeps
MaxObserved == 3

PROCESSING_BUCKET == "de-processing-bucket"

\* the statuses is_job_complete returns upon (line 27)
TerminalStatuses == {"SUCCEEDED", "FAILED"}

\* the statuses the OCR service reports of a job it has ended
JobEndStatuses == {"SUCCEEDED", "FAILED", "PARTIAL_SUCCESS"}

\* key.split("/")[-1]
LastSegment(key) ==
    LET at == {k \in 1..Len(key) : key[k] = "/"}
    IN  IF at = {} THEN key
        ELSE Slice(key, CHOOSE k \in at : \A j \in at : j <= k, Len(key))

\* name.rsplit('.', 1)[0]
BeforeLastDot(name) ==
    LET at == {k \in 1..Len(name) : name[k] = "."}
    IN  IF at = {} THEN name
        ELSE Slice(name, 0, (CHOOSE k \in at : \A j \in at : j <= k) - 1)

\* lines 176-180
OutputKey(key) ==
    <<"e", "x", "t", "r", "a", "c", "t", "e", "d", "-", "t", "e", "x", "t", "/">> \o BeforeLastDot(LastSegment(key)) \o <<"_", "e", "x", "t", "r", "a", "c", "t", "e", "d", ".", "j", "s", "o", "n">>

\* key in d, for a dict d; the empty dict is <<>>
HasKey(d, key) == d # <<>> /\ key \in DOMAIN d

\* lines 165-174: what reading the event raises, <<>> when it raises nothing:
\* a missing key raises KeyError, turned into ValueError at line 174, and an
\* empty list of records raises IndexError, which line 173 does not catch
EventError(event) ==
    LET missing(key) == <<[raises |-> "ValueError", key |-> key]>>
    IN  IF HasKey(event, "Records")
        THEN IF event.Records = <<>> THEN <<[raises |-> "IndexError", key |-> ""]>>
             ELSE LET record == event.Records[1]
                  IN  IF ~HasKey(record, "s3") THEN missing("s3")
                      ELSE IF ~HasKey(record.s3, "bucket") THEN missing("bucket")
                      ELSE IF ~HasKey(record.s3.bucket, "name") THEN missing("name")
                      ELSE IF ~HasKey(record.s3, "object") THEN missing("object")
                      ELSE IF ~HasKey(record.s3.object, "key") THEN missing("key")
                      ELSE <<>>
        ELSE IF ~HasKey(event, "bucket") THEN missing("bucket")
        ELSE IF ~HasKey(event, "key") THEN missing("key")
        ELSE <<>>

\* lines 165-171: <<[bucket, key]>>, or <<>> when reading the event raises
EventSource(event) ==
    IF EventError(event) # <<>> THEN <<>>
    ELSE IF HasKey(event, "Records")
    THEN <<[bucket |-> event.Records[1].s3.bucket.name,
            key |-> event.Records[1].s3.object.key]>>
    ELSE <<[bucket |-> event.bucket, key |-> event.key]>>

\* lines 162-180: the handler raises when reading the event does
HEvent ==
    /\ h_pc = "event"
    /\ IF EventSource(h_event) = <<>>
       THEN /\ h_pc' = "raised"
            /\ h_key' = h_key
       ELSE /\ h_pc' = "start"
            /\ h_key' = <<[bucket |-> EventSource(h_event)[1].bucket,
                           key |-> EventSource(h_event)[1].key,
                           sop_filename |-> LastSegment(EventSource(h_event)[1].key),
                           output_key |-> OutputKey(EventSource(h_event)[1].key)]>>
    /\ UNCHANGED <<h_event, h_doc, job, observed, h_complete, next_token, all_blocks,
                   put_object_calls, h_return>>
    /\ UNCHANGED notH

\* line 185, lines 15-20: start_document_analysis starts the job or raises
HStart ==
    /\ h_pc = "start"
    /\ \/ h_pc' = "poll" /\ job' = "IN_PROGRESS"
       \/ h_pc' = "raised" /\ job' = job
    /\ UNCHANGED <<h_event, h_doc, h_key, observed, h_complete, next_token, all_blocks,
                   put_object_calls, h_return>>
    /\ UNCHANGED notH

\* the OCR service ends the job
JobProgress ==
    /\ job = "IN_PROGRESS"
    /\ job' \in JobEndStatuses
    /\ UNCHANGED <<h_pc, h_event, h_doc, h_key, observed, h_complete, next_token,
                   all_blocks, put_object_calls, h_return>>
    /\ UNCHANGED notH

\* the statuses read, the last MaxObserved of them
Observe(obs, status) ==
    IF Len(obs) < MaxObserved THEN Append(obs, status) ELSE Append(Tail(obs), status)

\* lines 25-30: one get_document_analysis call of is_job_complete; a status
\* in ["SUCCEEDED", "FAILED"] is returned upon, the call may raise
HPoll ==
    /\ h_pc = "poll"
    /\ \/ /\ observed' = Observe(observed, job)
          /\ IF job \in TerminalStatuses
             THEN h_complete' = <<job = "SUCCEEDED">> /\ h_pc' = "check"
             ELSE h_complete' = h_complete /\ h_pc' = "sleep"
       \/ h_pc' = "raised" /\ UNCHANGED <<observed, h_complete>>
    /\ UNCHANGED <<h_event, h_doc, h_key, job, next_token, all_blocks, put_object_calls, h_return>>
    /\ UNCHANGED notH

\* line 31: time.sleep(2), then the loop polls again
HSleep ==
    /\ h_pc = "sleep"
    /\ h_pc' = "poll"
    /\ UNCHANGED <<h_event, h_doc, h_key, job, observed, h_complete, next_token,
                   all_blocks, put_object_calls, h_return>>
    /\ UNCHANGED notH

\* mutant: the result of is_job_complete is not looked at
M_HCheck_IgnoresFailure ==
    /\ h_pc = "check"
    /\ h_pc' = "fetch"
    /\ next_token' = 0
    /\ all_blocks' = <<>>
    /\ UNCHANGED <<h_event, h_doc, h_key, job, observed, h_complete, put_object_calls, h_return>>
    /\ UNCHANGED notH

\* lines 188-189, 35-36: a failed job raises, else the fetching starts
HCheck ==
    /\ h_pc = "check"
    /\ IF h_complete = <<TRUE>>
       THEN h_pc' = "fetch" /\ next_token' = 0 /\ all_blocks' = <<>>
       ELSE h_pc' = "raised" /\ UNCHANGED <<next_token, all_blocks>>
    /\ UNCHANGED <<h_event, h_doc, h_key, job, observed, h_complete, put_object_calls, h_return>>
    /\ UNCHANGED notH

\* lines 37-47: one get_document_analysis call of get_all_textract_blocks; the
\* response holds one result page and a NextToken unless it is the last one
HFetch ==
    /\ h_pc = "fetch"
    /\ \/ LET page == IF next_token = 0 THEN 1 ELSE next_token
          IN  /\ all_blocks' = all_blocks \o (IF page <= Len(h_doc) THEN h_doc[page] ELSE <<>>)
              /\ next_token' = IF page < Len(h_doc) THEN page + 1 ELSE 0
              /\ h_pc' = IF page < Len(h_doc) THEN "fetch" ELSE "call"
       \/ h_pc' = "raised" /\ UNCHANGED <<next_token, all_blocks>>
    /\ UNCHANGED <<h_event, h_doc, h_key, job, observed, h_complete, put_object_calls, h_return>>
    /\ UNCHANGED notH

\* line 192: extract_text_and_tables(all_blocks) is called
HExtractCall ==
    /\ h_pc = "call"
    /\ h_pc' = "extract"
    /\ blocks' = all_blocks
    /\ ext_pc' = "blocks"
    /\ UNCHANGED <<ext_i, raw_text_lines, ext_tables, table_geometries, page_line_blocks,
                   fb_p, fb_l, buffer, ext_raw_text, tbl_src>>
    /\ UNCHANGED <<h_event, h_doc, h_key, job, observed, h_complete, next_token,
                   all_blocks, put_object_calls, h_return>>
    /\ UNCHANGED <<catVars, secVars, docVars, stVars, caVars, inVars, urlVars>>

\* lines 195-221: the payload is written and the success record returned, or
\* put_object raises
HPut ==
    /\ h_pc = "extract"
    /\ ext_pc = "done"
    /\ \/ /\ put_object_calls' =
                Append(put_object_calls,
                       [Bucket |-> PROCESSING_BUCKET,
                        Key |-> h_key[1].output_key,
                        Body |-> [source_bucket |-> h_key[1].bucket,
                                  source_key |-> h_key[1].key,
                                  sop_filename |-> h_key[1].sop_filename,
                                  raw_text |-> ext_raw_text,
                                  tables |-> ext_tables]])
          /\ h_return' = <<[status |-> "success",
                            sop_filename |-> h_key[1].sop_filename,
                            extracted_text_output |->
                                [s3_bucket |-> PROCESSING_BUCKET,
                                 s3_key |-> h_key[1].output_key]]>>
          /\ h_pc' = "returned"
       \/ h_pc' = "raised" /\ UNCHANGED <<put_object_calls, h_return>>
    /\ UNCHANGED <<h_event, h_doc, h_key, job, observed, h_complete, next_token, all_blocks>>
    /\ UNCHANGED notH

(***************************************************************************)
(* Inputs of the text-extraction handler: an event and the result pages of *)
(* the job                                                                 *)
(***************************************************************************)
HEventChoices ==
    { [bucket |-> "incoming-sop", key |-> <<"S", "O", "P", "/", "a", ".", "b", ".", "p", "d", "f">>],
      [bucket |-> "incoming-sop"],
      [Records |-> <<[s3 |-> [bucket |-> [name |-> "incoming-sop"],
                              object |-> [key |-> <<"x">>]]]>>],
      [Records |-> <<[s3 |-> [bucket |-> [name |-> "incoming-sop"]]]>>],
      [Records |-> <<[s3 |-> [object |-> [key |-> <<"x">>]]]>>],
      [Records |-> <<[s3 |-> [bucket |-> [name |-> "incoming-sop"], object |-> <<>>]]>>],
      [Records |-> <<[s3 |-> [bucket |-> <<>>, object |-> [key |-> <<"x">>]]]>>],
      [Records |-> <<[eventName |-> "ObjectCreated:Put"]>>],
      [Records |-> <<>>],
      [key |-> <<"x">>],
      <<>> }

\* a table, a line inside it, two lines with a column gap, a line without,
\* and the blocks below the table
HBlocks ==
    WithIds(<< TableBlock(<<1>>, <<TableRegion>>, <<11, 12, 21>>),
               LineBlock(<<"a", " ", " ", "b">>, <<1>>, <<Box(1, 1, 2, 2)>>),
               LineBlock(<<"a", " ", " ", "b">>, <<2>>, <<Box(5, 5, 2, 2)>>),
               LineBlock(<<"b", " ", " ", " ", "a", " ">>, <<2>>, <<>>),
               LineBlock(<<"a">>, <<2>>, <<Box(5, 6, 2, 2)>> ) >>) \o PoolBlocks

\* the result pages: none, one page, two pages, three pages
HDocChoices ==
    { <<>>,
      <<SubSeq(HBlocks, 2, 3)>>,
      <<SubSeq(HBlocks, 1, 2), SubSeq(HBlocks, 3, Len(HBlocks))>>,
      <<SubSeq(HBlocks, 3, 3), <<>>, SubSeq(HBlocks, 4, 5)>> }

HInit ==
    /\ CatIdle /\ SecIdle /\ ExtIdle /\ DocIdle
    /\ StIdle /\ CaIdle /\ InIdle /\ UrlIdle
    /\ h_pc = "event"
    /\ h_event \in HEventChoices
    /\ h_doc \in HDocChoices
    /\ h_key = <<>>
    /\ job = "NONE"
    /\ observed = <<>>
    /\ h_complete = <<>>
    /\ next_token = 0
    /\ all_blocks = <<>>
    /\ put_object_calls = <<>>
    /\ h_return = <<>>

HNext ==
    \/ HEvent
    \/ HStart
    \/ JobProgress
    \/ HPoll
    \/ HSleep
    \/ HCheck
    \/ HFetch
    \/ HExtractCall
    \/ ExtLine
    \/ ExtTable
    \/ ExtOther
    \/ ExtStartPages
    \/ FbInside
    \/ FbBuffer
    \/ FbBreak
    \/ FbPageEnd
    \/ ExtReturn
    \/ HPut

SpecHandler == HInit /\ [][HNext]_vars

\* the loop of is_job_complete keeps running: a poll and the sleep after it
\* are taken whenever they stay possible
SpecHandlerLive == SpecHandler /\ WF_vars(HPoll) /\ WF_vars(HSleep)

(***************************************************************************)
(* Properties of is_job_complete and of the text-extraction handler        *)
(***************************************************************************)
\* what holds in every state of the polling, of the statuses of line 27
PollSafety ==
    \* no return before SUCCEEDED or FAILED is read
    /\ h_pc \in {"poll", "sleep"} =>
          /\ h_complete = <<>>
          /\ \A k \in 1..Len(observed) : observed[k] \notin TerminalStatuses
    \* any other status leads to another poll
    /\ h_pc = "sleep" => (observed # <<>> /\ observed[Len(observed)] \notin TerminalStatuses)
    \* the result is that of the first SUCCEEDED or FAILED read
    /\ h_complete # <<>> =>
          /\ observed # <<>>
          /\ observed[Len(observed)] \in TerminalStatuses
          /\ \A k \in 1..(Len(observed) - 1) : observed[k] \notin TerminalStatuses
          /\ h_complete[1] = (observed[Len(observed)] = "SUCCEEDED")

\* C17: is_job_complete returns only upon reading a status that ends the
\* polling, true for SUCCEEDED and false for FAILED; every status of a job
\* still running is followed by another poll; once the job reports a terminal
\* status, one with which the service has ended it, the polling ends.
Orig_C17_PollUntilTerminal ==
    /\ []PollSafety
    /\ [][h_pc = "sleep" => h_pc' \in {"sleep", "poll"}]_vars
    /\ (job \in JobEndStatuses) ~> (h_pc \notin {"poll", "sleep"})

\* what holds of C17: the same, for a job that reports SUCCEEDED or FAILED
PollEndsOnSucceededOrFailed ==
    /\ []PollSafety
    /\ [][h_pc = "sleep" => h_pc' \in {"sleep", "poll"}]_vars
    /\ (job \in TerminalStatuses) ~> (h_pc \notin {"poll", "sleep"})

\* a job ended PARTIAL_SUCCESS is polled on and on
PollingAnEndedJob ==
    /\ job = "PARTIAL_SUCCESS"
    /\ h_pc = "sleep"
    /\ observed = <<"PARTIAL_SUCCESS", "PARTIAL_SUCCESS", "PARTIAL_SUCCESS">>

\* C20: the handler calls put_object only once the job was read as SUCCEEDED
\* and all result pages were fetched, and once at most; after a FAILED job or a
\* raise it has written nothing and returns no success record.
Thm_C20_WriteAfterSuccess ==
    /\ put_object_calls # <<>> =>
          /\ Len(put_object_calls) = 1
          /\ h_complete = <<TRUE>>
          /\ observed[Len(observed)] = "SUCCEEDED"
          /\ all_blocks = Concat(h_doc)
          /\ next_token = 0
    /\ h_pc = "raised" => (put_object_calls = <<>> /\ h_return = <<>>)
    /\ h_complete = <<FALSE>> =>
          (h_pc \in {"check", "raised"} /\ put_object_calls = <<>> /\ h_return = <<>>)
    /\ h_return # <<>> => (h_pc = "returned" /\ put_object_calls # <<>>)

\* the handler has written the data of a job of three result pages
Wit_C20_ThreePagesWritten ==
    /\ h_pc = "returned"
    /\ Len(h_doc) = 3
    /\ Len(put_object_calls) = 1
    /\ put_object_calls[1].Body.tables # <<>>

(***************************************************************************)
(* is_block_inside_tables called on its own: one LINE block, with or       *)
(* without a bounding box, against up to MaxInBoxes table boxes.           *)
(* Coordinates are counted in units of a grid; a centre is kept doubled,   *)
(* so that the halves of line 57-58 stay integers.                         *)
(***************************************************************************)
MaxInBoxes == 2

\* the bounding boxes of the line
InLineBoxes == {Box(l, t, w, h) : l \in 0..2, t \in 0..2, w \in 0..2, h \in 0..2}

\* the bounding boxes of the tables
InTableBoxes == {Box(l, t, w, h) : l \in 0..1, t \in 0..1, w \in {0, 2}, h \in {0, 2}}

InInit ==
    /\ CatIdle /\ SecIdle /\ ExtIdle /\ DocIdle
    /\ StIdle /\ CaIdle /\ UrlIdle /\ HIdle
    /\ in_pc = "call"
    /\ in_line \in {LineBlock(<<"a">>, <<1>>, b) : b \in {<<>>} \cup {<<x>> : x \in InLineBoxes}}
    /\ in_boxes \in SeqsUpTo(InTableBoxes, MaxInBoxes)
    /\ in_result = <<>>

\* lines 52-64: the call and its return value
InCall ==
    /\ in_pc = "call"
    /\ in_result' = <<is_block_inside_tables(in_line, in_boxes)>>
    /\ in_pc' = "done"
    /\ UNCHANGED <<in_line, in_boxes>>
    /\ UNCHANGED notIn

InNext == InCall

SpecInside == InInit /\ [][InNext]_vars

\* twice the centre of a bounding box
CenterX2(b) == 2 * b.Left + b.Width
CenterY2(b) == 2 * b.Top + b.Height

\* the centre of line box b lies in table box g, edges included
CenterWithin(b, g) ==
    /\ CenterX2(b) \in (2 * g.Left)..(2 * g.Left + 2 * g.Width)
    /\ CenterY2(b) \in (2 * g.Top)..(2 * g.Top + 2 * g.Height)

\* C18: is_block_inside_tables returns true exactly when the centre of the
\* line's box lies in at least one table box, the four edges included; it
\* returns false for no table boxes and for a line without a bounding box.
Thm_C18_CenterInsideInclusive ==
    in_result # <<>> =>
        /\ in_result[1] = (/\ in_line.Box # <<>>
                            /\ \E k \in 1..Len(in_boxes) : CenterWithin(in_line.Box[1], in_boxes[k]))
        /\ in_boxes = <<>> => in_result[1] = FALSE
        /\ in_line.Box = <<>> => in_result[1] = FALSE

\* true was returned for a centre on the lower right corner of the second
\* table box and outside the first
Wit_C18_CenterOnCorner ==
    /\ in_result = <<TRUE>>
    /\ Len(in_boxes) = 2
    /\ ~CenterWithin(in_line.Box[1], in_boxes[1])
    /\ in_boxes[2].Width > 0
    /\ CenterX2(in_line.Box[1]) = 2 * (in_boxes[2].Left + in_boxes[2].Width)
    /\ CenterY2(in_line.Box[1]) = 2 * (in_boxes[2].Top + in_boxes[2].Height)

(***************************************************************************)
(* The upload-URL handler (Generate_Presigned_URL_Lambda.lambda_handler).  *)
(* The request body is kept as what json.loads makes of it: text that is   *)
(* not JSON, a JSON value that is not an object, or an object whose three  *)
(* fields are absent (<<>>) or hold one JSON value.                        *)
(***************************************************************************)
\* line 8: os.environ.get('UPLOAD_BUCKET', 'incoming-sop')
BUCKET_NAME == IF upload_bucket = <<>> THEN "incoming-sop" ELSE upload_bucket[1]

JNull == [t |-> "null"]
JNum(n) == [t |-> "num", n |-> n]
\* a str kept as its characters
JStr(x) == [t |-> "str", s |-> x]

\* a str that is only compared, kept whole
JName(x) == [t |-> "name", s |-> x]

sSOP == <<"S", "O", "P">>
sDE_Templates == <<"D", "E", "_", "T", "e", "m", "p", "l", "a", "t", "e", "s">>

\* lines 23-26
allowed_types ==
    { "application/vnd.openxmlformats-officedocument.spreadsheetml.sheet",
      "application/vnd.ms-excel" }

\* lines 35-39
allowed_sop_types ==
    { "application/pdf",
      "application/vnd.openxmlformats-officedocument.wordprocessingml.document",
      "application/msword" }

\* dict.get(key): None for an absent key
Get(field) == IF field = <<>> THEN JNull ELSE field[1]

\* dict.get(key, default)
GetOr(field, default) == IF field = <<>> THEN default ELSE field[1]

\* bool(v) of a JSON value
Truthy(v) ==
    CASE v.t = "null" -> FALSE
      [] v.t = "num" -> v.n # 0
      [] v.t = "str" -> v.s # <<>>
      [] v.t = "name" -> v.s # ""

\* os.path.basename(p): what follows the last "/"
Basename(p) ==
    LET at == {k \in 1..Len(p) : p[k] = "/"}
    IN  IF at = {} THEN p
        ELSE Slice(p, CHOOSE k \in at : \A j \in at : j <= k, Len(p))

\* line 13: the body the handler parses, '{}' for an event without one
UrlBody == IF url_event.body = <<>> THEN [kind |-> "object", filename |-> <<>>,
                                          contentType |-> <<>>, fileCategory |-> <<>>]
           ELSE url_event.body[1]

\* lines 14-16
UrlFilename == Get(UrlBody.filename)
UrlContentType == Get(UrlBody.contentType)
UrlCategory == GetOr(UrlBody.fileCategory, JName("sop"))

\* lines 27 and 40: content_type in types; a value that is no str is in neither list
IsOneOf(v, types) == v.t = "name" /\ v.s \in types

\* lines 18-47: the folder of an accepted request, none for a rejected one
UrlFolderOf ==
    IF ~Truthy(UrlFilename) \/ ~Truthy(UrlContentType) THEN <<>>
    ELSE IF UrlCategory = JName("template")
         THEN (IF IsOneOf(UrlContentType, allowed_types) THEN <<sDE_Templates>> ELSE <<>>)
    ELSE IF UrlCategory = JName("sop")
         THEN (IF IsOneOf(UrlContentType, allowed_sop_types) THEN <<sSOP>> ELSE <<>>)
    ELSE <<>>

UrlAnswer(code, key) == [statusCode |-> code, key |-> key]

\* line 13: json.loads raises TypeError for a body of None
UrlBodyNone ==
    /\ url_pc = "start"
    /\ UrlBody.kind = "none"
    /\ url_response' = <<UrlAnswer(500, <<>>)>>
    /\ url_pc' = "done"
    /\ UNCHANGED <<upload_bucket, presign_raises, url_event, url_folder, url_generated>>
    /\ UNCHANGED notUrl

\* line 13: json.loads raises JSONDecodeError, a ValueError
UrlBodyNotJson ==
    /\ url_pc = "start"
    /\ UrlBody.kind = "invalid"
    /\ url_response' = <<UrlAnswer(400, <<>>)>>
    /\ url_pc' = "done"
    /\ UNCHANGED <<upload_bucket, presign_raises, url_event, url_folder, url_generated>>
    /\ UNCHANGED notUrl

\* line 14: body.get raises AttributeError on a list, None, a number or a string
UrlBodyNotObject ==
    /\ url_pc = "start"
    /\ UrlBody.kind \in {"array", "null", "number", "string"}
    /\ url_response' = <<UrlAnswer(500, <<>>)>>
    /\ url_pc' = "done"
    /\ UNCHANGED <<upload_bucket, presign_raises, url_event, url_folder, url_generated>>
    /\ UNCHANGED notUrl

\* lines 18-47 raising ValueError, answered at lines 78-88
UrlReject ==
    /\ url_pc = "start"
    /\ UrlBody.kind = "object"
    /\ UrlFolderOf = <<>>
    /\ url_response' = <<UrlAnswer(400, <<>>)>>
    /\ url_pc' = "done"
    /\ UNCHANGED <<upload_bucket, presign_raises, url_event, url_folder, url_generated>>
    /\ UNCHANGED notUrl

\* lines 18-47 passing
UrlAccept ==
    /\ url_pc = "start"
    /\ UrlBody.kind = "object"
    /\ UrlFolderOf # <<>>
    /\ url_folder' = UrlFolderOf
    /\ url_pc' = "generate"
    /\ UNCHANGED <<upload_bucket, presign_raises, url_event, url_generated, url_response>>
    /\ UNCHANGED notUrl

\* line 50: os.path.basename raises TypeError for a filename that is a number
UrlBasenameFails ==
    /\ url_pc = "generate"
    /\ UrlFilename.t # "str"
    /\ url_response' = <<UrlAnswer(500, <<>>)>>
    /\ url_pc' = "done"
    /\ UNCHANGED <<upload_bucket, presign_raises, url_event, url_folder, url_generated>>
    /\ UNCHANGED notUrl

\* line 51
UrlKey == url_folder[1] \o <<"/">> \o Basename(UrlFilename.s)

\* lines 50-77: the URL is signed and answered
UrlGenerate ==
    /\ url_pc = "generate"
    /\ UrlFilename.t = "str"
    /\ presign_raises = <<>>
    /\ url_generated' = Append(url_generated,
                               [Bucket |-> BUCKET_NAME, Key |-> UrlKey,
                                ContentType |-> UrlContentType.s])
    /\ url_response' = <<UrlAnswer(200, <<UrlKey>>)>>
    /\ url_pc' = "done"
    /\ UNCHANGED <<upload_bucket, presign_raises, url_event, url_folder>>
    /\ UNCHANGED notUrl

\* lines 53-62 raising a ValueError (UnicodeEncodeError is one), answered at
\* lines 78-88
UrlGenerateInvalid ==
    /\ url_pc = "generate"
    /\ UrlFilename.t = "str"
    /\ presign_raises = <<"ValueError">>
    /\ url_response' = <<UrlAnswer(400, <<>>)>>
    /\ url_pc' = "done"
    /\ UNCHANGED <<upload_bucket, presign_raises, url_event, url_folder, url_generated>>
    /\ UNCHANGED notUrl

\* lines 53-62 raising any other Exception, answered at lines 90-100
UrlGenerateFails ==
    /\ url_pc = "generate"
    /\ UrlFilename.t = "str"
    /\ presign_raises = <<"Exception">>
    /\ url_response' = <<UrlAnswer(500, <<>>)>>
    /\ url_pc' = "done"
    /\ UNCHANGED <<upload_bucket, presign_raises, url_event, url_folder, url_generated>>
    /\ UNCHANGED notUrl

UrlFilenames ==
    {<<>>, <<JNull>>, <<JNum(5)>>, <<JStr(<<>>)>>, <<JStr(<<"a">>)>>,
     <<JStr(<<"d", "/", "a">>)>>, <<JStr(<<"d", "/">>)>>}

UrlContentTypes ==
    {<<>>, <<JNull>>, <<JNum(5)>>, <<JName("")>>, <<JName("text/plain")>>}
        \cup {<<JName(c)>> : c \in allowed_types \cup allowed_sop_types}

UrlCategories ==
    {<<>>, <<JNull>>, <<JNum(5)>>, <<JName("sop")>>, <<JName("template")>>, <<JName("other")>>}

UrlBodies ==
    {[kind |-> k, filename |-> <<>>, contentType |-> <<>>, fileCategory |-> <<>>] :
        k \in {"none", "invalid", "array", "null", "number", "string"}}
    \cup {[kind |-> "object", filename |-> f, contentType |-> c, fileCategory |-> g] :
            f \in UrlFilenames, c \in UrlContentTypes, g \in UrlCategories}

UrlInit ==
    /\ CatIdle /\ SecIdle /\ ExtIdle /\ DocIdle
    /\ StIdle /\ CaIdle /\ InIdle /\ HIdle
    /\ upload_bucket \in {<<>>, <<"sop-uploads-prod">>, <<"">>}
    /\ presign_raises \in {<<>>, <<"ValueError">>, <<"Exception">>}
    /\ url_pc = "start"
    /\ url_event \in {[body |-> b] : b \in {<<>>} \cup {<<x>> : x \in UrlBodies}}
    /\ url_folder = <<>>
    /\ url_generated = <<>>
    /\ url_response = <<>>

UrlNext ==
    \/ UrlBodyNone
    \/ UrlBodyNotJson
    \/ UrlBodyNotObject
    \/ UrlReject
    \/ UrlAccept
    \/ UrlBasenameFails
    \/ UrlGenerate
    \/ UrlGenerateInvalid
    \/ UrlGenerateFails

SpecUpload == UrlInit /\ [][UrlNext]_vars

\* json.loads returns a value for the body
UrlParseable == UrlBody.kind \notin {"none", "invalid"}

\* the condition of the claim: filename and content type present, and the
\* category 'template' with an Excel type or 'sop' (the default) with a PDF or
\* Word type
UrlAcceptable ==
    /\ UrlBody.kind = "object"
    /\ Truthy(UrlFilename) /\ Truthy(UrlContentType)
    /\ \/ UrlCategory = JName("template") /\ IsOneOf(UrlContentType, allowed_types)
       \/ UrlCategory = JName("sop") /\ IsOneOf(UrlContentType, allowed_sop_types)

\* every generated key is the folder, "/" and the base name of the filename
UrlKeysWellFormed ==
    \A k \in 1..Len(url_generated) :
        \E folder \in {sSOP, sDE_Templates} :
            url_generated[k].Key = folder \o <<"/">> \o Basename(UrlFilename.s)

\* C19 as stated: a URL is generated and 200 answered only for an acceptable
\* request, every other request with a parseable body is answered 400 without
\* a URL, and every key is 'SOP/' or 'DE_Templates/' and the base name.
Orig_C19_OtherRequestsAnswer400 ==
    /\ (url_generated # <<>> \/ (url_response # <<>> /\ url_response[1].statusCode = 200))
           => UrlAcceptable
    /\ (url_pc = "done" /\ UrlParseable /\ ~UrlAcceptable)
           => (url_response[1].statusCode = 400 /\ url_generated = <<>>)
    /\ UrlKeysWellFormed

\* what holds of C19: the same, for bodies that parse to a JSON object
UrlObjectBodiesScreened ==
    /\ (url_generated # <<>> \/ (url_response # <<>> /\ url_response[1].statusCode = 200))
           => UrlAcceptable
    /\ (url_pc = "done" /\ UrlBody.kind = "object" /\ ~UrlAcceptable)
           => (url_response[1].statusCode = 400 /\ url_generated = <<>>)
    /\ UrlKeysWellFormed

====
